---- MODULE Spec2Model ----
(***************************************************************************)
(* Komari Memory / Knowledge: the knowledge engine (keyword index, hybrid  *)
(* search), the per-conversation message buffer kept in Redis, and the     *)
(* consolidation (summary) worker.                                         *)
(*                                                                         *)
(* Two specifications share the module:                                    *)
(*   SpecKnowledge  MemoryEngine: add/update/delete and search             *)
(*   SpecMemory     RedisManager, MessageHandler, summary_worker           *)
(***************************************************************************)
EXTENDS Integers, Sequences, FiniteSets, TLC

VARIABLES
    \* ---- MemoryEngine (engine.py) ----
    knowledge,        \* table komari_knowledge: id -> [keywords, content]
    nextId,           \* the table's serial id
    keyword_index,    \* MemoryEngine._keyword_index: lower-cased keyword -> set of ids
    index_loaded,     \* MemoryEngine._index_loaded
    spc,              \* position of the running search() call
    s_query,          \* its query
    s_limit,          \* its limit
    s_matched,        \* matched_ids computed by Layer 1 from the index
    results,          \* its results list
    \* ---- Redis keys of the conversation (redis_manager.py) ----
    buffer,           \* list komari_memory:buffer:<group>: the buffered messages
    message_count,    \* komari_memory:messages:<group> (a missing key reads 0)
    token_count,      \* komari_memory:tokens:<group> (a missing key reads 0)
    last_summary,     \* komari_memory:last_summary:<group>: NoTime or a time
    now,              \* time.time()
    nextMsg,          \* id of the next inbound message
    \* ---- table komari_memory_conversations ----
    conversations,    \* the stored memories, in insertion order
    \* ---- MessageHandler._handle_normal_message (message_handler.py) ----
    hpc,              \* position of the running handler
    h_msg,            \* its message
    \* ---- summary_worker_task / perform_summary (summary_worker.py) ----
    tpc,              \* position of the running tick
    attempt,          \* `attempt` of the retry loop
    messages_buffer,  \* perform_summary's messages_buffer
    t_reason,         \* the check of should_trigger_summary that returned
    outcome,          \* how the tick ended
    \* ---- history, for stating the properties ----
    pushed,           \* the messages pushed since the buffer key was last deleted
    snap,             \* the conversation's state when the tick began
    disturbed,        \* a handler step ran while the tick was running (snap is
                      \* then dropped: it describes ticks that ran alone)
    prev_tick,        \* outcome of the previous tick, until a message is pushed
    \* ---- table komari_memory_conversations, continued ----
    deleted,          \* ids of the rows that were DELETEd (a row's id is its
                      \* position in `conversations`: a serial, never reused)
    accessed,         \* the ids whose last_accessed a search has set
    \* ---- ForgettingService.decay_and_cleanup (forgetting_service.py) ----
    fpc,              \* position of the running forgetting cycle
    f_rows,           \* ids of `rows` not fuzzified yet
    f_cur,            \* conv_id of the running _fuzzify_conversation
    f_outcome,        \* how the cycle ended
    f_done,           \* history: ids this cycle fuzzified
    f_sel,            \* history: ids this cycle selected for fuzzification
    \* ---- ConversationRepository.search_by_similarity ----
    cpc,              \* position of the running memory search
    c_rows,           \* ids of the rows it fetched
    \* ---- concurrent add / update / delete_knowledge calls (engine.py) ----
    ktasks,           \* task -> its position and its locals
    \* ---- MessageHandler.process_message, the paths that may reply ----
    ppc,              \* position of the running call on the @ or proactive path
    p_attempt,        \* `attempt` of generate_reply's retry wrapper
    p_result,         \* how the last call of process_message ended
    cooldown,         \* key komari_memory:proactive:cd:<group> exists
    proactive_count,  \* komari_memory:proactive:count:<group>:<hour>
    p_event,          \* history: the event the last call was given
    \* ---- the scheduler (summary_worker.py, forgetting_worker.py) ----
    jobs,             \* the scheduler's jobs
    service,          \* ForgettingTaskManager._service (0: None)
    registrations,    \* history: the register calls made
    sched_result,     \* how the last register or unregister call ended
    \* ---- table komari_memory_entity and upsert_entity (memory_service.py) ----
    entities,         \* the rows of the table, in insertion order
    epc,              \* position of the running upsert_entity
    e_entity,         \* its arguments
    e_existing,       \* its `existing`
    latest,           \* history: triple -> what the last upsert of it gave
    \* ---- perform_summary, continued: the summarizer and the entity loop ----
    s_attempt,        \* `attempt` of summarize_conversation's retry wrapper
    summarize_calls,  \* history: the calls of summarize_conversation's body
                      \* this tick has made
    t_entities,       \* perform_summary's `entities`
    pending,          \* the entities its loop has not reached yet
    e_log,            \* history: how the upsert of each entity reached ended
    extraction,       \* whether the summarizer's replies list entities
    \* ---- history of the memories' lifecycle ----
    lifecycle,        \* whether this history is kept
    age,              \* row id -> the forgetting cycles that reached their
                      \* decay since the row was stored
    f_failed,         \* a statement of a forgetting cycle has raised
    \* ---- a call of a function that retry_async wraps ----
    rpc,              \* position of the wrapper: "idle", "call", "sleep", "done"
    r_max,            \* its max_attempts
    r_attempt,        \* its `attempt`
    r_last_error,     \* its `last_error`
    r_result,         \* what the wrapper gave its caller
    r_outcomes,       \* history: how each invocation of the function ended
    \* ---- concurrent calls of process_message on the proactive path ----
    qpc,              \* call -> its position in _handle_interrupt_signal
    q_attempt,        \* call -> `attempt` of generate_reply's retry wrapper
    q_result,         \* call -> how it ended
    window,           \* history: the proactive replies stored since the
                      \* cooldown key was last absent
    \* ---- a call of build_prompt ----
    bpc,              \* its position: "idle", "history", "done"
    b_recent,         \* its recent_messages
    b_user_message,   \* its user_message
    b_i,              \* the messages its loop has taken
    b_contents,       \* its `contents`
    b_block,          \* its current_block
    b_side,           \* its current_side
    \* ---- the global engine (engine.py) ----
    g_engine,         \* `_engine`
    ipc,              \* task -> its position in initialize_engine
    g_got             \* history: what the last get_engine returned

knowledgeVars == <<knowledge, nextId, keyword_index, index_loaded,
                   spc, s_query, s_limit, s_matched, results>>

redisVars == <<buffer, message_count, token_count, last_summary>>

handlerVars == <<hpc, h_msg, nextMsg>>

tickVars == <<tpc, attempt, messages_buffer, t_reason, outcome>>

historyVars == <<pushed, snap, disturbed, prev_tick>>

memoryVars == <<redisVars, now, conversations, handlerVars, tickVars, historyVars>>

forgetVars == <<deleted, accessed, fpc, f_rows, f_cur, f_outcome, f_done, f_sel,
                cpc, c_rows>>

\* the state of the parts added below
processVars == <<ppc, p_attempt, p_result, cooldown, proactive_count, p_event>>

schedVars == <<jobs, service, registrations, sched_result>>

\* what a step of an add / update / delete_knowledge task, of process_message
\* and of the scheduler leaves alone there
entityVars == <<entities, epc, e_entity, e_existing, latest>>

batchVars == <<s_attempt, summarize_calls, t_entities, pending, e_log, extraction>>

lifeVars == <<lifecycle, age, f_failed>>

retryVars == <<rpc, r_max, r_attempt, r_last_error, r_result, r_outcomes>>

\* the state of the parts that stand alone
proactiveVars == <<qpc, q_attempt, q_result, window>>

promptVars == <<bpc, b_recent, b_user_message, b_i, b_contents, b_block, b_side>>

engineVars == <<g_engine, ipc, g_got>>

toolVars == <<retryVars, proactiveVars, promptVars, engineVars>>

taskRest == <<processVars, schedVars, entityVars, batchVars, lifeVars, toolVars>>

processRest == <<ktasks, schedVars, entityVars, batchVars, lifeVars, toolVars>>

schedRest == <<ktasks, processVars, entityVars, batchVars, lifeVars, toolVars>>

entityRest == <<ktasks, processVars, schedVars, batchVars, lifeVars, toolVars>>

batchRest == <<ktasks, processVars, schedVars, lifeVars, toolVars>>

lifeRest == <<ktasks, processVars, schedVars, entityVars, batchVars, toolVars>>

retryRest == <<ktasks, processVars, schedVars, entityVars, batchVars, lifeVars,
               proactiveVars, promptVars, engineVars>>

promptRest == <<ktasks, processVars, schedVars, entityVars, batchVars, lifeVars,
                retryVars, proactiveVars, engineVars>>

engineRest == <<ktasks, processVars, schedVars, entityVars, batchVars, lifeVars,
                retryVars, proactiveVars, promptVars>>

otherVars == <<ktasks, processVars, schedVars, entityVars, batchVars, lifeVars, toolVars>>

vars == <<knowledgeVars, memoryVars, forgetVars, otherVars>>

(***************************************************************************)
(* Bounds of the model.                                                    *)
(***************************************************************************)
MaxId    == 2      \* records ever inserted
MaxLimit == 2      \* largest limit passed to search()
MaxMsgs  == 3      \* inbound messages
MaxTime  == 2      \* the clock stops here
MaxMemories == 2   \* rows of komari_memory_conversations

\* the configuration, scaled down
message_buffer_size       == 2
summary_message_threshold == 2
summary_time_threshold    == 2
summary_token_threshold   == 3

(***************************************************************************)
(* Text.  A string is a sequence of characters; str.lower() maps each      *)
(* character to its lower-case form.                                       *)
(***************************************************************************)
LowerChar(c) ==
    CASE c = "A" -> "a"
      [] c = "B" -> "b"
      [] OTHER   -> c

Lower(s) == [i \in 1..Len(s) |-> LowerChar(s[i])]

\* Python's `k in q` on strings
IsSubstring(k, q) ==
    \E i \in 0..(Len(q) - Len(k)) : SubSeq(q, i + 1, i + Len(k)) = k

\* `not query or not query.strip()`
IsBlank(q) == \A i \in 1..Len(q) : q[i] = " "

Ka == <<"a">>
KA == <<"A">>
Kb == <<"b">>

\* the keyword lists a caller passes to add_knowledge / update_knowledge
KeywordLists == { <<>>, <<KA, Kb>>, <<Ka, KA>> }

\* the contents a caller passes
Contents == {"x", "y"}

\* the queries passed to search()
Queries == { <<" ">>, <<"B">>, <<"a", "B">>, <<"c">> }

Limits == 1..MaxLimit

(***************************************************************************)
(* embed(text): a black box that is a function of the text.  Vectors are   *)
(* points 0..2; the cosine distance of two vectors is their gap, in 0..2,  *)
(* so that a similarity (1 - distance) is one of 1, 0, -1.                 *)
(***************************************************************************)
\* of a record's content
embed_content(c) == IF c = "x" THEN 0 ELSE 1

\* of a query
embed_query(q) ==
    CASE q = <<"B">>      -> 0
      [] q = <<"a", "B">> -> 1
      [] OTHER            -> 2

Abs(n) == IF n < 0 THEN -n ELSE n

\* embedding <=> $1
Distance(e1, e2) == Abs(e1 - e2)

\* config.similarity_threshold
similarity_threshold == 0

Max(a, b) == IF a >= b THEN a ELSE b
Min(a, b) == IF a <= b THEN a ELSE b

\* the sequences that list each element of S exactly once
Orderings(S) ==
    { f \in [1..Cardinality(S) -> S] :
        \A i, j \in 1..Cardinality(S) : i # j => f[i] # f[j] }

\* the injective sequences of length n over S
Arrangements(S, n) ==
    UNION { Orderings(T) : T \in { U \in SUBSET S : Cardinality(U) = n } }

SeqToSet(s) == { s[i] : i \in 1..Len(s) }

(***************************************************************************)
(* The keyword index.                                                      *)
(***************************************************************************)
\* index[k] of a defaultdict(set) read without inserting the key
Bucket(index, k) == IF k \in DOMAIN index THEN index[k] ELSE {}

\* self._keyword_index[kw_lower].add(kid)
IndexAdd(index, k, kid) ==
    [x \in (DOMAIN index) \cup {k} |->
        IF x = k THEN Bucket(index, k) \cup {kid} ELSE index[x]]

\* if kw_lower in self._keyword_index: self._keyword_index[kw_lower].discard(kid)
IndexDiscard(index, k, kid) ==
    [x \in DOMAIN index |-> IF x = k THEN index[x] \ {kid} ELSE index[x]]

\* for kw in keywords: index[kw.lower()].add(kid)
RECURSIVE AddKeywords(_, _, _)
AddKeywords(index, keywords, kid) ==
    IF keywords = <<>> THEN index
    ELSE AddKeywords(IndexAdd(index, Lower(Head(keywords)), kid),
                     Tail(keywords), kid)

\* for kw in keywords: if kw.lower() in index: index[kw.lower()].discard(kid)
RECURSIVE DiscardKeywords(_, _, _)
DiscardKeywords(index, keywords, kid) ==
    IF keywords = <<>> THEN index
    ELSE DiscardKeywords(IndexDiscard(index, Lower(Head(keywords)), kid),
                         Tail(keywords), kid)

\* _build_keyword_index: every row with a non-empty keywords array
RECURSIVE BuildFrom(_, _, _)
BuildFrom(index, table, ids) ==
    IF ids = {} THEN index
    ELSE LET kid == CHOOSE i \in ids : TRUE
         IN  BuildFrom(IF Len(table[kid].keywords) > 0
                         THEN AddKeywords(index, table[kid].keywords, kid)
                         ELSE index,
                       table, ids \ {kid})

build_keyword_index(table) == BuildFrom(<<>>, table, DOMAIN table)

EmptyTable == [i \in {} |-> 0]

Row(kws, c) == [keywords |-> kws, content |-> c]

(***************************************************************************)
(* Initial state: the engine after initialize(): the table holds what an   *)
(* earlier run left, the index was built from it.                          *)
(***************************************************************************)
InitKnowledge ==
    /\ \E t \in {EmptyTable} \cup
                { [i \in {1} |-> Row(kws, c)] : kws \in KeywordLists, c \in Contents } :
          /\ knowledge = t
          /\ nextId = Cardinality(DOMAIN t) + 1
          /\ keyword_index = build_keyword_index(t)
    /\ index_loaded = TRUE
    /\ spc = "idle"
    /\ s_query = <<>>
    /\ s_limit = 0
    /\ s_matched = {}
    /\ results = <<>>

(***************************************************************************)
(* add_knowledge / delete_knowledge / update_knowledge, each run to        *)
(* completion (the calls run one after another).                           *)
(***************************************************************************)
\* index update of add_knowledge
add_index(index, keywords, kid) == AddKeywords(index, keywords, kid)

add_knowledge(content, keywords) ==
    /\ nextId <= MaxId
    /\ knowledge' = [i \in (DOMAIN knowledge) \cup {nextId} |->
                        IF i = nextId THEN Row(keywords, content) ELSE knowledge[i]]
    /\ keyword_index' = add_index(keyword_index, keywords, nextId)
    /\ nextId' = nextId + 1
    /\ UNCHANGED <<index_loaded, spc, s_query, s_limit, s_matched, results>>
    /\ UNCHANGED <<memoryVars, forgetVars, otherVars>>

\* index update of delete_knowledge
delete_index(index, keywords, kid) == DiscardKeywords(index, keywords, kid)

delete_knowledge(kid) ==
    /\ IF kid \notin DOMAIN knowledge
         THEN UNCHANGED <<knowledge, keyword_index>>          \* return False
         ELSE /\ knowledge' = [i \in (DOMAIN knowledge) \ {kid} |-> knowledge[i]]
              /\ keyword_index' =
                    delete_index(keyword_index, knowledge[kid].keywords, kid)
    /\ UNCHANGED <<nextId, index_loaded, spc, s_query, s_limit, s_matched, results>>
    /\ UNCHANGED <<memoryVars, forgetVars, otherVars>>

\* an argument left at None, and one that is given
None == "None"
NoKeywords == <<>>
Given(kws) == <<kws>>

\* update_knowledge without the removal of the old keywords
update_index_keep_old(index, old_keywords, new_keywords, kid) ==
    AddKeywords(index, new_keywords, kid)

\* index update of update_knowledge: old keywords out, new keywords in
update_index(index, old_keywords, new_keywords, kid) ==
    AddKeywords(DiscardKeywords(index, old_keywords, kid), new_keywords, kid)

\* content: None or new; keywords: NoKeywords or Given(new).  category and
\* notes are not part of the model: a call with neither content nor keywords
\* is one that gives a category or notes (with all four None it raises
\* ValueError before it reads anything).
update_knowledge(kid, content, keywords) ==
    /\ IF kid \notin DOMAIN knowledge
         THEN UNCHANGED <<knowledge, keyword_index>>          \* return False
         ELSE LET row == knowledge[kid]
                  old_keywords == row.keywords
                  new_keywords == IF keywords # NoKeywords
                                    THEN keywords[1] ELSE old_keywords
              IN  /\ knowledge' =
                        [knowledge EXCEPT ![kid] =
                            Row(new_keywords,
                                IF content # None THEN content ELSE row.content)]
                  /\ keyword_index' =
                        update_index(keyword_index, old_keywords, new_keywords, kid)
    /\ UNCHANGED <<nextId, index_loaded, spc, s_query, s_limit, s_matched, results>>
    /\ UNCHANGED <<memoryVars, forgetVars, otherVars>>

AddKnowledge ==
    \E c \in Contents, kws \in KeywordLists : add_knowledge(c, kws)

DeleteKnowledge ==
    \E kid \in 1..MaxId : delete_knowledge(kid)

UpdateKnowledge ==
    \E kid \in 1..MaxId, c \in Contents \cup {None},
       kws \in {Given(k) : k \in KeywordLists} \cup {NoKeywords} :
        update_knowledge(kid, c, kws)

(***************************************************************************)
(* add_knowledge / delete_knowledge / update_knowledge as tasks of the     *)
(* event loop: a call runs up to its next await, where another call may    *)
(* run.  A task holds the call's keywords argument and the keywords of the *)
(* row it has read; its content argument, which only the INSERT or UPDATE  *)
(* reads, is drawn there.                                                  *)
(***************************************************************************)
\* the calls that may be in progress together
NumTasks == 2

Tasks == 1..NumTasks

\* no call in progress
Task0 == [pc |-> "idle", kid |-> 0, keywords |-> NoKeywords,
          old_keywords |-> <<>>]

\* the table and the index are left alone by this step of task t
TaskOnly(t, task) ==
    /\ ktasks' = [ktasks EXCEPT ![t] = task]
    /\ UNCHANGED <<index_loaded, spc, s_query, s_limit, s_matched, results>>
    /\ UNCHANGED <<memoryVars, forgetVars, taskRest>>

\* add_knowledge up to `await loop.run_in_executor(None, self._get_embedding, ...)`
TaskAddBegin(t) ==
    /\ ktasks[t].pc = "idle"
    /\ nextId + Cardinality({u \in Tasks : ktasks[u].pc = "add_insert"}) <= MaxId
    /\ \E kws \in KeywordLists :
        TaskOnly(t, [Task0 EXCEPT !.pc = "add_insert", !.keywords = Given(kws)])
    /\ UNCHANGED <<knowledge, nextId, keyword_index>>

\* kid = await conn.fetchval(INSERT ... RETURNING id)
TaskAddInsert(t) ==
    /\ ktasks[t].pc = "add_insert"
    /\ \E content \in Contents :
        knowledge' = [i \in (DOMAIN knowledge) \cup {nextId} |->
                        IF i = nextId
                          THEN Row(ktasks[t].keywords[1], content)
                          ELSE knowledge[i]]
    /\ nextId' = nextId + 1
    /\ TaskOnly(t, [ktasks[t] EXCEPT !.pc = "add_index", !.kid = nextId])
    /\ UNCHANGED keyword_index

\* add_knowledge after the connection is released: the index update
TaskAddIndex(t) ==
    /\ ktasks[t].pc = "add_index"
    /\ keyword_index' =
          add_index(keyword_index, ktasks[t].keywords[1], ktasks[t].kid)
    /\ TaskOnly(t, Task0)
    /\ UNCHANGED <<knowledge, nextId>>

\* delete_knowledge: row = await conn.fetchrow(SELECT keywords ...)
TaskDeleteRead(t) ==
    /\ ktasks[t].pc = "idle"
    /\ \E kid \in 1..MaxId :
        IF kid \notin DOMAIN knowledge
          THEN TaskOnly(t, Task0)                              \* return False
          ELSE TaskOnly(t, [Task0 EXCEPT !.pc = "delete_exec", !.kid = kid,
                               !.old_keywords = knowledge[kid].keywords])
    /\ UNCHANGED <<knowledge, nextId, keyword_index>>

\* await conn.execute(DELETE ... WHERE id = $1)
TaskDeleteExec(t) ==
    /\ ktasks[t].pc = "delete_exec"
    /\ knowledge' = [i \in (DOMAIN knowledge) \ {ktasks[t].kid} |-> knowledge[i]]
    /\ TaskOnly(t, [ktasks[t] EXCEPT !.pc = "delete_index"])
    /\ UNCHANGED <<nextId, keyword_index>>

\* delete_knowledge after the connection is released: the index update
TaskDeleteIndex(t) ==
    /\ ktasks[t].pc = "delete_index"
    /\ keyword_index' =
          delete_index(keyword_index, ktasks[t].old_keywords, ktasks[t].kid)
    /\ TaskOnly(t, Task0)
    /\ UNCHANGED <<knowledge, nextId>>

\* update_knowledge: row = await conn.fetchrow(SELECT content, keywords, ...)
TaskUpdateRead(t) ==
    /\ ktasks[t].pc = "idle"
    /\ \E kid \in 1..MaxId,
          kws \in {Given(k) : k \in KeywordLists} \cup {NoKeywords} :
        IF kid \notin DOMAIN knowledge
          THEN TaskOnly(t, Task0)                              \* return False
          ELSE TaskOnly(t, [pc |-> "update_exec", kid |-> kid, keywords |-> kws,
                            old_keywords |-> knowledge[kid].keywords])
    /\ UNCHANGED <<knowledge, nextId, keyword_index>>

\* await conn.execute(UPDATE ... SET <the fields given> WHERE id = $1), after
\* the embedding of a new content; a row deleted meanwhile is not updated
TaskUpdateExec(t) ==
    /\ ktasks[t].pc = "update_exec"
    /\ \E content \in Contents \cup {None} :
        LET kid == ktasks[t].kid
        IN  knowledge' =
              IF kid \in DOMAIN knowledge
                THEN [knowledge EXCEPT ![kid] =
                        Row(IF ktasks[t].keywords # NoKeywords
                              THEN ktasks[t].keywords[1] ELSE knowledge[kid].keywords,
                            IF content # None
                              THEN content ELSE knowledge[kid].content)]
                ELSE knowledge
    /\ TaskOnly(t, [ktasks[t] EXCEPT !.pc = "update_index"])
    /\ UNCHANGED <<nextId, keyword_index>>

\* update_knowledge after the connection is released: old_keywords are those
\* of the row as it was read, new_keywords the argument or else old_keywords
TaskUpdateIndex(t) ==
    /\ ktasks[t].pc = "update_index"
    /\ LET old_keywords == ktasks[t].old_keywords
           new_keywords == IF ktasks[t].keywords # NoKeywords
                             THEN ktasks[t].keywords[1] ELSE old_keywords
       IN  keyword_index' =
             update_index(keyword_index, old_keywords, new_keywords, ktasks[t].kid)
    /\ TaskOnly(t, Task0)
    /\ UNCHANGED <<knowledge, nextId>>

NextTasks ==
    \E t \in Tasks :
        \/ TaskAddBegin(t)
        \/ TaskAddInsert(t)
        \/ TaskAddIndex(t)
        \/ TaskDeleteRead(t)
        \/ TaskDeleteExec(t)
        \/ TaskDeleteIndex(t)
        \/ TaskUpdateRead(t)
        \/ TaskUpdateExec(t)
        \/ TaskUpdateIndex(t)

(***************************************************************************)
(* search(query, limit): Layer 1 (index, then a fetch), Layer 2 (vector).  *)
(* The call waits at each fetch, where knowledge operations may run.       *)
(***************************************************************************)
KeywordHit(kid) == [id |-> kid, similarity |-> 1, source |-> "keyword"]

VectorHit(kid, sim) == [id |-> kid, similarity |-> sim, source |-> "vector"]

\* Layer 1 matching a keyword only when it is the whole query
layer1_matched_exact(index, query) ==
    UNION { index[kw] : kw \in { k \in DOMAIN index : k = Lower(query) } }

\* matched_ids: for kw, kid_set in index.items(): if kw in query_lower
layer1_matched(index, query) ==
    UNION { index[kw] : kw \in { k \in DOMAIN index : IsSubstring(k, Lower(query)) } }

\* the Layer 1 query without its LIMIT
layer1_rows_no_limit(table, matched, limit) ==
    LET found == matched \cap DOMAIN table
    IN  Arrangements(found, Cardinality(found))

\* SELECT ... WHERE id = ANY($1) LIMIT $2: the possible row lists (no ORDER BY)
layer1_rows(table, matched, limit) ==
    LET found == matched \cap DOMAIN table
    IN  Arrangements(found, Min(limit, Cardinality(found)))

\* 1 - (embedding <=> $1)
Similarity(table, kid, qvec) == 1 - Distance(embed_content(table[kid].content), qvec)

\* the Layer 2 query without its `id != ALL($2)`
layer2_rows_no_exclude(table, qvec, exclude_ids, limit) ==
    LET cand == DOMAIN table
        d(kid) == Distance(embed_content(table[kid].content), qvec)
    IN  { r \in Arrangements(cand, Min(limit, Cardinality(cand))) :
            /\ \A i, j \in 1..Len(r) : i < j => d(r[i]) <= d(r[j])
            /\ \A i \in 1..Len(r) : \A k \in cand \ SeqToSet(r) : d(r[i]) <= d(k) }

\* the Layer 2 query without its ORDER BY
layer2_rows_no_order(table, qvec, exclude_ids, limit) ==
    LET cand == (DOMAIN table) \ exclude_ids
    IN  Arrangements(cand, Min(limit, Cardinality(cand)))

\* SELECT ... WHERE id != ALL($2) ORDER BY embedding <=> $1 LIMIT $3:
\* the possible row lists (rows at the same distance come in any order)
layer2_rows(table, qvec, exclude_ids, limit) ==
    LET cand == (DOMAIN table) \ exclude_ids
        d(kid) == Distance(embed_content(table[kid].content), qvec)
    IN  { r \in Arrangements(cand, Min(limit, Cardinality(cand))) :
            /\ \A i, j \in 1..Len(r) : i < j => d(r[i]) <= d(r[j])
            /\ \A i \in 1..Len(r) : \A k \in cand \ SeqToSet(r) : d(r[i]) <= d(k) }

\* if row["similarity"] >= config.similarity_threshold: results.append(...)
RECURSIVE layer2_filter(_, _, _)
layer2_filter(table, qvec, rows) ==
    IF rows = <<>> THEN <<>>
    ELSE LET sim == Similarity(table, Head(rows), qvec)
             rest == layer2_filter(table, qvec, Tail(rows))
         IN  IF sim >= similarity_threshold
               THEN <<VectorHit(Head(rows), sim)>> \o rest
               ELSE rest

\* for hit in keyword_hits: if hit.id not in seen_ids: results.append(hit)
RECURSIVE AppendUnseen(_, _)
AppendUnseen(acc, hits) ==
    IF hits = <<>> THEN acc
    ELSE AppendUnseen(
            IF Head(hits).id \in { acc[i].id : i \in 1..Len(acc) }
              THEN acc ELSE Append(acc, Head(hits)),
            Tail(hits))

SeenIds(res) == { res[i].id : i \in 1..Len(res) }

\* search() up to the Layer 1 fetch: the index is read at once
SearchBegin ==
    /\ spc = "idle"
    /\ \E q \in Queries, limit \in Limits :
        /\ s_query' = q
        /\ s_limit' = limit
        /\ results' = <<>>
        /\ IF IsBlank(q)
             THEN /\ spc' = "done"                    \* return []
                  /\ s_matched' = {}
             ELSE LET matched == IF index_loaded
                                   THEN layer1_matched(keyword_index, q) ELSE {}
                  IN  /\ s_matched' = matched
                      /\ spc' = IF matched = {} THEN "layer2" ELSE "layer1"
    /\ UNCHANGED <<knowledge, nextId, keyword_index, index_loaded>>
    /\ UNCHANGED <<memoryVars, forgetVars, otherVars>>

\* the Layer 1 fetch, and search()'s merge of the keyword hits
SearchLayer1 ==
    /\ spc = "layer1"
    /\ \E rows \in layer1_rows(knowledge, s_matched, s_limit) :
        LET keyword_hits == [i \in 1..Len(rows) |-> KeywordHit(rows[i])]
            merged == AppendUnseen(<<>>, keyword_hits)
        IN  /\ results' = merged
            /\ spc' = IF Len(merged) < s_limit THEN "layer2" ELSE "done"
    /\ UNCHANGED <<knowledge, nextId, keyword_index, index_loaded,
                   s_query, s_limit, s_matched>>
    /\ UNCHANGED <<memoryVars, forgetVars, otherVars>>

\* the Layer 2 fetch: results.extend(vector_hits)
SearchLayer2 ==
    /\ spc = "layer2"
    /\ LET qvec == embed_query(s_query)
       IN  \E rows \in layer2_rows(knowledge, qvec, SeenIds(results),
                                   s_limit - Len(results)) :
              results' = results \o layer2_filter(knowledge, qvec, rows)
    /\ spc' = "done"
    /\ UNCHANGED <<knowledge, nextId, keyword_index, index_loaded,
                   s_query, s_limit, s_matched>>
    /\ UNCHANGED <<memoryVars, forgetVars, otherVars>>

\* the Layer 2 call raises (the query embedding or the fetch): search() has
\* no handler around it, the exception leaves search() and the keyword hits
\* collected in `results` are not returned
SearchLayer2Raise ==
    /\ spc = "layer2"
    /\ spc' = "raised"
    /\ UNCHANGED <<knowledge, nextId, keyword_index, index_loaded,
                   s_query, s_limit, s_matched, results>>
    /\ UNCHANGED <<memoryVars, forgetVars, otherVars>>

\* the caller takes the result, or the exception
SearchReturn ==
    /\ spc \in {"done", "raised"}
    /\ spc' = "idle"
    /\ s_query' = <<>>
    /\ s_limit' = 0
    /\ s_matched' = {}
    /\ results' = <<>>
    /\ UNCHANGED <<knowledge, nextId, keyword_index, index_loaded>>
    /\ UNCHANGED <<memoryVars, forgetVars, otherVars>>

(***************************************************************************)
(* Redis lists.  Index 0 is the head (the oldest element of a list filled  *)
(* by RPUSH); a negative index counts from the tail.                       *)
(***************************************************************************)
\* the elements LRANGE returns and LTRIM keeps
LRange(list, start, stop) ==
    LET n == Len(list)
        a == IF start < 0 THEN Max(n + start, 0) ELSE start
        b == Min(IF stop < 0 THEN n + stop ELSE stop, n - 1)
    IN  IF a > b \/ a >= n THEN <<>> ELSE SubSeq(list, a + 1, b + 1)

LTrim(list, start, stop) == LRange(list, start, stop)

RPush(list, x) == Append(list, x)

\* push_message without its LTRIM
push_message_no_trim(buf, message) == RPush(buf, message)

\* RedisManager.push_message: pipe.rpush(key, ...); pipe.ltrim(key, 0, size - 1)
push_message(buf, message) ==
    LTrim(RPush(buf, message), 0, message_buffer_size - 1)

\* RedisManager.get_buffer: lrange(key, 0, limit - 1)
get_buffer(buf, limit) == LRange(buf, 0, limit - 1)

\* perform_summary: redis.get_buffer(group_id, limit=200)
SummaryLimit == 200

NoTime == 0 - 1

\* should_trigger_summary with `>` for the `>=` of the message count
trigger_reason_strict(mc, last, t, tok) ==
    IF mc > summary_message_threshold THEN "count"
    ELSE IF last # NoTime /\ t - last >= summary_time_threshold THEN "time"
    ELSE IF tok >= summary_token_threshold THEN "tokens"
    ELSE "none"

\* RedisManager.should_trigger_summary: the first check that returns True
trigger_reason(mc, last, t, tok) ==
    IF mc >= summary_message_threshold THEN "count"
    ELSE IF last # NoTime /\ t - last >= summary_time_threshold THEN "time"
    ELSE IF tok >= summary_token_threshold THEN "tokens"
    ELSE "none"

should_trigger_summary(mc, last, t, tok) ==
    trigger_reason(mc, last, t, tok) # "none"

\* a reset that leaves the count
reset_message_count_keep(mc) == mc

\* RedisManager.reset_message_count / reset_tokens / delete_buffer: DEL key
reset_message_count(mc) == 0

reset_tokens(tok) == 0

\* delete_buffer that leaves the list
delete_buffer_keep(buf) == buf

delete_buffer(buf) == <<>>

Ids(msgs) == { msgs[i].id : i \in 1..Len(msgs) }

\* len(message.content) of an inbound message
ContentLengths == {1, 3}

\* the importance the summarizer returns (1..5; 3 when the reply has none)
Importances == {3}

(***************************************************************************)
(* ConversationRepository.insert_conversation: importance_current starts   *)
(* at importance_initial.  `msgs` records which messages the summary was   *)
(* made from.                                                              *)
(***************************************************************************)
insert_conversation(table, msgs, summary, embedding, importance_initial) ==
    Append(table, [msgs |-> msgs,
                   summary |-> summary,
                   embedding |-> embedding,
                   importance_initial |-> importance_initial,
                   importance_current |-> importance_initial,
                   is_fuzzy |-> FALSE])

\* the summary the summarizer wrote, and the one-sentence text that
\* _generate_fuzzy_summary gives for it (the LLM's, or the canned one)
DetailedSummary == "summary"

FuzzySummary == "fuzzy summary"

\* MemoryService._get_embedding: the vector of a text
get_embedding(text) == [of |-> text]

\* MemoryService.store_conversation as perform_summary calls it, with
\* importance_initial, and as the plugin builds the service, over the
\* repositories: embed the summary, insert the row
store_conversation(table, msgs, importance_initial) ==
    insert_conversation(table, msgs, DetailedSummary, get_embedding(DetailedSummary),
                        importance_initial)

NoSnap == [message_count |-> 0, token_count |-> 0, buffer |-> <<>>,
           last_summary |-> NoTime, nconv |-> 0, prev_tick |-> "none"]

InitMemory ==
    /\ buffer = <<>>
    /\ message_count = 0
    /\ token_count = 0
    /\ last_summary = NoTime
    /\ now = 0
    /\ nextMsg = 1
    /\ conversations = <<>>
    /\ hpc = "idle"
    /\ h_msg = [id |-> 0, tokens |-> 0]
    /\ tpc = "idle"
    /\ attempt = 0
    /\ messages_buffer = <<>>
    /\ t_reason = "none"
    /\ outcome = "none"
    /\ pushed = <<>>
    /\ snap = NoSnap
    /\ disturbed = FALSE
    /\ prev_tick = "none"

\* a handler step while a tick is running
Disturb ==
    /\ disturbed' = (tpc # "idle")
    /\ snap' = IF tpc # "idle" THEN NoSnap ELSE snap

(***************************************************************************)
(* MessageHandler._handle_normal_message: push, count, tokens; the handler *)
(* waits between the three Redis calls.                                    *)
(***************************************************************************)
HandlePush ==
    /\ hpc = "idle"
    /\ nextMsg <= MaxMsgs
    /\ \E n \in ContentLengths :
        LET message == [id |-> nextMsg]
        IN  /\ buffer' = push_message(buffer, message)
            /\ pushed' = Append(pushed, message)
            /\ h_msg' = [id |-> nextMsg, tokens |-> n]
    /\ nextMsg' = nextMsg + 1
    /\ hpc' = "count"
    /\ prev_tick' = "none"
    /\ Disturb
    /\ UNCHANGED <<message_count, token_count, last_summary, now, conversations,
                   tickVars>>
    /\ UNCHANGED <<knowledgeVars, forgetVars, otherVars>>

HandleCount ==
    /\ hpc = "count"
    /\ message_count' = message_count + 1           \* INCRBY key 1
    /\ hpc' = "tokens"
    /\ Disturb
    /\ UNCHANGED <<buffer, token_count, last_summary, now, conversations,
                   h_msg, nextMsg, tickVars, pushed, prev_tick>>
    /\ UNCHANGED <<knowledgeVars, forgetVars, otherVars>>

HandleTokens ==
    /\ hpc = "tokens"
    /\ token_count' = token_count + h_msg.tokens    \* INCRBY key len(content)
    /\ hpc' = "idle"
    /\ Disturb
    /\ UNCHANGED <<buffer, message_count, last_summary, now, conversations,
                   h_msg, nextMsg, tickVars, pushed, prev_tick>>
    /\ UNCHANGED <<knowledgeVars, forgetVars, otherVars>>

AdvanceTime ==
    /\ now < MaxTime
    /\ now' = now + 1
    /\ UNCHANGED <<redisVars, conversations, handlerVars, tickVars, historyVars>>
    /\ UNCHANGED <<knowledgeVars, forgetVars, otherVars>>

(***************************************************************************)
(* MemoryService.upsert_entity (EntityRepository.upsert has the same       *)
(* body): table komari_memory_entity as the list of its rows, so that two  *)
(* rows of one (user_id, group_id, key) can be told from one.  Its only    *)
(* caller is perform_summary's loop, one call after the other.             *)
(***************************************************************************)
\* the rows the table may hold
MaxEntities == 3

UserIds == {"u1", "u2"}

GroupIds == {"g1", "g2"}

EntityKeys == {"k1", "k2"}

\* (user_id, group_id, key)
Triples == UserIds \X GroupIds \X EntityKeys

\* value, category and importance of a call
EntityValues == {[value |-> "v1", category |-> "general", importance |-> 3],
                 [value |-> "v2", category |-> "preference", importance |-> 5]}

NoEntity == [value |-> "", category |-> "", importance |-> 0]

Entity(t, v) == [user_id |-> t[1], group_id |-> t[2], key |-> t[3],
                 value |-> v.value, category |-> v.category,
                 importance |-> v.importance]

TripleOf(row) == <<row.user_id, row.group_id, row.key>>

\* WHERE user_id = $1 AND group_id = $2 AND key = $3
SameTriple(row, e) ==
    row.user_id = e.user_id /\ row.group_id = e.group_id /\ row.key = e.key

\* a SELECT that finds no row
select_entity_none(table, e) == FALSE

\* existing = await conn.fetchrow(SELECT id ... WHERE the triple)
select_entity(table, e) == \E i \in DOMAIN table : SameTriple(table[i], e)

\* UPDATE ... SET value, category, importance WHERE the triple
update_entity(table, e) ==
    [i \in DOMAIN table |->
        IF SameTriple(table[i], e)
            THEN [table[i] EXCEPT !.value = e.value, !.category = e.category,
                                  !.importance = e.importance]
            ELSE table[i]]

\* INSERT INTO komari_memory_entity (...) VALUES (...)
insert_entity(table, e) == Append(table, e)

\* upsert_entity as a whole
upsert_entity(table, e) ==
    IF select_entity(table, e) THEN update_entity(table, e)
                               ELSE insert_entity(table, e)

EntitiesAtRest ==
    /\ entities = <<>>
    /\ epc = "idle"
    /\ e_entity = Entity(<<"", "", "">>, NoEntity)
    /\ e_existing = FALSE
    /\ latest = [t \in Triples |-> NoEntity]

EntityOnly == UNCHANGED <<knowledgeVars, memoryVars, forgetVars, entityRest>>

\* upsert_entity is called, and runs its SELECT
UpsertSelect ==
    /\ epc = "idle"
    /\ \E t \in Triples, v \in EntityValues :
        /\ e_entity' = Entity(t, v)
        /\ e_existing' = select_entity(entities, Entity(t, v))
        /\ Len(entities) < MaxEntities \/ select_entity(entities, Entity(t, v))
    /\ epc' = "write"
    /\ UNCHANGED <<entities, latest>>
    /\ EntityOnly

\* if existing: the UPDATE, else: the INSERT; and the call returns
UpsertWrite ==
    /\ epc = "write"
    /\ entities' = IF e_existing THEN update_entity(entities, e_entity)
                                 ELSE insert_entity(entities, e_entity)
    /\ latest' = [latest EXCEPT ![TripleOf(e_entity)] =
                    [value |-> e_entity.value, category |-> e_entity.category,
                     importance |-> e_entity.importance]]
    /\ epc' = "idle"
    /\ UNCHANGED <<e_entity, e_existing>>
    /\ EntityOnly

\* a statement of upsert_entity raises (the connection, or the table's
\* definition): the call ends and the table is as it was
UpsertRaise ==
    /\ epc = "write"
    /\ epc' = "idle"
    /\ UNCHANGED <<entities, e_entity, e_existing, latest>>
    /\ EntityOnly

NextEntities ==
    \/ UpsertSelect
    \/ UpsertWrite
    \/ UpsertRaise

(***************************************************************************)
(* summary_worker_task: one tick of the interval job.                      *)
(***************************************************************************)
\* retry_async(max_attempts=3) of generate_reply and of summarize_conversation
max_attempts == 3

\* group_ids = await redis.get_active_groups(): the buffer keys that exist
TickStart ==
    /\ tpc = "idle"
    /\ snap' = [message_count |-> message_count, token_count |-> token_count,
                buffer |-> buffer, last_summary |-> last_summary,
                nconv |-> Len(conversations), prev_tick |-> prev_tick]
    /\ IF buffer = <<>>
         THEN tpc' = "end" /\ outcome' = "inactive"
         ELSE tpc' = "check" /\ outcome' = "none"
    /\ UNCHANGED <<redisVars, now, conversations, handlerVars, attempt,
                   messages_buffer, t_reason, pushed, disturbed, prev_tick>>
    /\ UNCHANGED <<knowledgeVars, forgetVars, otherVars>>

\* if await redis.should_trigger_summary(group_id): the keys it reads are
\* read in one step
TickCheck ==
    /\ tpc = "check"
    /\ t_reason' = trigger_reason(message_count, last_summary, now, token_count)
    /\ IF should_trigger_summary(message_count, last_summary, now, token_count)
         THEN tpc' = "get_buffer" /\ outcome' = outcome
         ELSE tpc' = "end" /\ outcome' = "not_triggered"
    /\ UNCHANGED <<redisVars, now, conversations, handlerVars, attempt,
                   messages_buffer, historyVars>>
    /\ UNCHANGED <<knowledgeVars, forgetVars, otherVars>>

\* perform_summary: messages_buffer = await redis.get_buffer(group_id, limit=200)
PerformGetBuffer ==
    /\ tpc = "get_buffer"
    /\ messages_buffer' = get_buffer(buffer, SummaryLimit)
    /\ IF messages_buffer' = <<>>
         THEN tpc' = "end" /\ outcome' = "empty_buffer"      \* return
         ELSE tpc' = "summarize" /\ outcome' = outcome
    /\ UNCHANGED <<redisVars, now, conversations, handlerVars, attempt,
                   t_reason, historyVars>>
    /\ UNCHANGED <<knowledgeVars, forgetVars, otherVars>>

\* what the summarizer's reply lists as entities: strings (the structured
\* reply's list[str]) or dicts (the JSON of the fallback request)
MaxExtracted == 2

StrEntity == [dict |-> FALSE, entity |-> Entity(<<"", "", "">>, NoEntity)]

DictEntity(t, v) == [dict |-> TRUE, entity |-> Entity(t, v)]

ExtractedEntities ==
    {StrEntity} \cup {DictEntity(<<"u1", "g1", "k1">>, v) : v \in EntityValues}

ExtractedLists(extracts) ==
    IF extracts
        THEN UNION {[1..n -> ExtractedEntities] : n \in 0..MaxExtracted}
        ELSE {<<>>}

\* `except Exception` of the tick's retry loop (for attempt in range(3)):
\* sleep and call perform_summary again, or give up
RetryOrGiveUp ==
    IF attempt < 2
        THEN /\ attempt' = attempt + 1
             /\ tpc' = "get_buffer"
             /\ outcome' = outcome
        ELSE /\ attempt' = attempt
             /\ tpc' = "end"
             /\ outcome' = "failed"

\* result = await summarize_conversation(...): this call of its body returns;
\* entities = result.get("entities", []); if not summary: return
PerformSummarize ==
    /\ tpc = "summarize"
    /\ summarize_calls' = summarize_calls + 1
    /\ s_attempt' = 0
    /\ \E summary_empty \in BOOLEAN, ents \in ExtractedLists(extraction) :
        /\ t_entities' = ents
        /\ pending' = ents
        /\ e_log' = <<>>
        /\ IF summary_empty
             THEN tpc' = "end" /\ outcome' = "empty_summary"
             ELSE tpc' = "store" /\ outcome' = outcome
    /\ UNCHANGED <<redisVars, now, conversations, handlerVars, attempt,
                   messages_buffer, t_reason, historyVars>>
    /\ UNCHANGED <<knowledgeVars, forgetVars, batchRest, entityVars, extraction>>

\* this call of summarize_conversation's body raises (both of its requests
\* failed, or the reply was no JSON): retry_async sleeps and calls it again,
\* and re-raises after the last attempt, into the retry loop of the tick
PerformSummarizeRaise ==
    /\ tpc = "summarize"
    /\ summarize_calls' = summarize_calls + 1
    /\ IF s_attempt < max_attempts - 1
         THEN /\ s_attempt' = s_attempt + 1
              /\ UNCHANGED <<tpc, attempt, outcome>>
         ELSE /\ s_attempt' = 0
              /\ RetryOrGiveUp
    /\ UNCHANGED <<redisVars, now, conversations, handlerVars, messages_buffer,
                   t_reason, historyVars>>
    /\ UNCHANGED <<knowledgeVars, forgetVars, batchRest, entityVars,
                   t_entities, pending, e_log, extraction>>

\* conversation_id = await memory.store_conversation(...); the loop over
\* the entities follows
PerformStore ==
    /\ tpc = "store"
    /\ Len(conversations) < MaxMemories
    /\ \E importance \in Importances :
        conversations' =
            store_conversation(conversations, Ids(messages_buffer), importance)
    /\ tpc' = IF pending = <<>> THEN "reset_count" ELSE "upsert"
    /\ UNCHANGED <<redisVars, now, handlerVars, attempt, messages_buffer,
                   t_reason, outcome, historyVars>>
    /\ UNCHANGED <<knowledgeVars, forgetVars, otherVars>>

\* await redis.reset_message_count(group_id)
PerformResetCount ==
    /\ tpc = "reset_count"
    /\ message_count' = reset_message_count(message_count)
    /\ tpc' = "reset_tokens"
    /\ UNCHANGED <<buffer, token_count, last_summary, now, conversations,
                   handlerVars, attempt, messages_buffer, t_reason, outcome,
                   historyVars>>
    /\ UNCHANGED <<knowledgeVars, forgetVars, otherVars>>

\* await redis.reset_tokens(group_id)
PerformResetTokens ==
    /\ tpc = "reset_tokens"
    /\ token_count' = reset_tokens(token_count)
    /\ tpc' = "delete_buffer"
    /\ UNCHANGED <<buffer, message_count, last_summary, now, conversations,
                   handlerVars, attempt, messages_buffer, t_reason, outcome,
                   historyVars>>
    /\ UNCHANGED <<knowledgeVars, forgetVars, otherVars>>

\* await redis.delete_buffer(group_id)
PerformDeleteBuffer ==
    /\ tpc = "delete_buffer"
    /\ buffer' = delete_buffer(buffer)
    /\ pushed' = buffer'
    /\ tpc' = "update_last"
    /\ UNCHANGED <<message_count, token_count, last_summary, now, conversations,
                   handlerVars, attempt, messages_buffer, t_reason, outcome,
                   snap, disturbed, prev_tick>>
    /\ UNCHANGED <<knowledgeVars, forgetVars, otherVars>>

\* await redis.update_last_summary(group_id): SET key time.time()
PerformUpdateLast ==
    /\ tpc = "update_last"
    /\ last_summary' = now
    /\ tpc' = "end"
    /\ outcome' = "ok"
    /\ UNCHANGED <<buffer, message_count, token_count, now, conversations,
                   handlerVars, attempt, messages_buffer, t_reason, historyVars>>
    /\ UNCHANGED <<knowledgeVars, forgetVars, otherVars>>

\* for entity in entities: the next entity
next_entity_none(entity_list) == <<>>

next_entity(entity_list) == Tail(entity_list)

\* the loop is over when no entity is left
AfterUpsert == tpc' = IF pending' = <<>> THEN "reset_count" ELSE "upsert"

\* await memory.upsert_entity(...) of the loop returns
PerformUpsert ==
    /\ tpc = "upsert"
    /\ Head(pending).dict
    /\ LET e == Head(pending).entity
       IN  /\ Len(entities) < MaxEntities \/ select_entity(entities, e)
           /\ entities' = upsert_entity(entities, e)
           /\ latest' = [latest EXCEPT ![TripleOf(e)] =
                            [value |-> e.value, category |-> e.category,
                             importance |-> e.importance]]
    /\ e_log' = Append(e_log, "ok")
    /\ pending' = next_entity(pending)
    /\ AfterUpsert
    /\ UNCHANGED <<redisVars, now, conversations, handlerVars, attempt,
                   messages_buffer, t_reason, outcome, historyVars>>
    /\ UNCHANGED <<knowledgeVars, forgetVars, batchRest, epc, e_entity, e_existing,
                   s_attempt, summarize_calls, t_entities, extraction>>

\* the upsert of the loop raises (entity.get on an entity that is a string,
\* or a statement of upsert_entity): `except Exception` logs it
PerformUpsertRaise ==
    /\ tpc = "upsert"
    /\ e_log' = Append(e_log, "failed")
    /\ pending' = next_entity(pending)
    /\ AfterUpsert
    /\ UNCHANGED <<redisVars, now, conversations, handlerVars, attempt,
                   messages_buffer, t_reason, outcome, historyVars>>
    /\ UNCHANGED <<knowledgeVars, forgetVars, batchRest, entityVars,
                   s_attempt, summarize_calls, t_entities, extraction>>

\* the calls of perform_summary that raise into the retry loop of the tick
\* (summarize_conversation is PerformSummarizeRaise)
PerformSteps == {"get_buffer", "store", "reset_count",
                 "reset_tokens", "delete_buffer", "update_last"}

\* the call perform_summary is waiting for raises: `except Exception` of the
\* retry loop (for attempt in range(3)) retries after a sleep, or gives up
PerformRaise ==
    /\ tpc \in PerformSteps
    /\ RetryOrGiveUp
    /\ UNCHANGED <<redisVars, now, conversations, handlerVars, messages_buffer,
                   t_reason, pushed, snap, disturbed, prev_tick>>
    /\ UNCHANGED <<knowledgeVars, forgetVars, otherVars>>

\* a call of the running tick raised
Raised == attempt > 0 \/ outcome = "failed"

\* a tick that consolidated on the message count, alone and without a failure
CleanOk ==
    /\ outcome = "ok"
    /\ ~disturbed
    /\ ~Raised
    /\ snap.message_count >= summary_message_threshold

\* the job returns; the scheduler will run it again
TickEnd ==
    /\ tpc = "end"
    /\ tpc' = "idle"
    /\ prev_tick' = IF CleanOk THEN "clean_ok" ELSE "other"
    /\ attempt' = 0
    /\ messages_buffer' = <<>>
    /\ t_reason' = "none"
    /\ outcome' = "none"
    /\ snap' = NoSnap
    /\ disturbed' = FALSE
    /\ summarize_calls' = 0
    /\ t_entities' = <<>>
    /\ pending' = <<>>
    /\ e_log' = <<>>
    /\ UNCHANGED <<redisVars, now, conversations, handlerVars, pushed>>
    /\ UNCHANGED <<knowledgeVars, forgetVars, batchRest, entityVars,
                   s_attempt, extraction>>

NextMemory ==
    \/ HandlePush
    \/ HandleCount
    \/ HandleTokens
    \/ AdvanceTime
    \/ TickStart
    \/ TickCheck
    \/ PerformGetBuffer
    \/ PerformSummarize
    \/ PerformStore
    \/ PerformResetCount
    \/ PerformResetTokens
    \/ PerformDeleteBuffer
    \/ PerformUpdateLast
    \/ PerformRaise
    \/ TickEnd

\* the tick with the failures of the summarizer told apart.  A call of
\* summarize_conversation that raises changes nothing but the two attempt
\* counters, and when its wrapper gives up the tick goes on as after any
\* other call that raised, so NextMemory leaves these steps out.
NextSummarize ==
    \/ NextMemory
    \/ PerformSummarizeRaise

(***************************************************************************)
(* The conversation memories: rows of komari_memory_conversations, their   *)
(* search (ConversationRepository.search_by_similarity) and the forgetting *)
(* cycle (ForgettingService.decay_and_cleanup).                            *)
(***************************************************************************)
\* config.forgetting_importance_threshold
forgetting_importance_threshold == 2

\* the importance an LLM reply may carry
RawImportances == {0, 7}

\* the reply's importance taken as it comes
normalize_importance_raw(raw) == raw

\* ConversationSummarySchema (ge=1, le=5) and the fallback's
\* max(1, min(5, importance))
normalize_importance(raw) == Max(1, Min(5, raw))

\* the ids of the rows in the table
Live(table, gone) == (1..Len(table)) \ gone

\* a decay without the floor
daily_decay_no_floor(table) ==
    [i \in 1..Len(table) |->
        [table[i] EXCEPT !.importance_current = @ - 1]]

\* UPDATE ... SET importance_current = GREATEST(0, importance_current - 1)
daily_decay(table) ==
    [i \in 1..Len(table) |->
        [table[i] EXCEPT !.importance_current = Max(0, @ - 1)]]

\* a low-value phase that deletes nothing
delete_low_value_memories_none(table, gone) == gone

\* DELETE ... WHERE importance_current = 0 AND importance_initial <= $1
delete_low_value_memories(table, gone) ==
    gone \cup { i \in Live(table, gone) :
                    /\ table[i].importance_current = 0
                    /\ table[i].importance_initial <= forgetting_importance_threshold }

\* a high-value phase that deletes fuzzy or not
delete_fuzzy_memories_any(table, gone) ==
    gone \cup { i \in Live(table, gone) :
                    /\ table[i].importance_current = 0
                    /\ table[i].importance_initial > forgetting_importance_threshold }

\* a high-value phase that deletes nothing
delete_fuzzy_memories_none(table, gone) == gone

\* DELETE ... WHERE importance_current = 0 AND importance_initial > $1
\*            AND is_fuzzy = TRUE
delete_fuzzy_memories(table, gone) ==
    gone \cup { i \in Live(table, gone) :
                    /\ table[i].importance_current = 0
                    /\ table[i].importance_initial > forgetting_importance_threshold
                    /\ table[i].is_fuzzy }

\* SELECT id, summary ... WHERE importance_current = 0
\*            AND importance_initial > $1 AND is_fuzzy = FALSE
select_for_fuzzify(table, gone) ==
    { i \in Live(table, gone) :
        /\ table[i].importance_current = 0
        /\ table[i].importance_initial > forgetting_importance_threshold
        /\ ~table[i].is_fuzzy }

\* a fuzzification that leaves importance_current alone
fuzzify_conversation_no_reset(table, gone, conv_id) ==
    IF conv_id \in Live(table, gone)
      THEN [table EXCEPT ![conv_id] =
                [@ EXCEPT !.summary = FuzzySummary, !.is_fuzzy = TRUE]]
      ELSE table

\* UPDATE ... SET summary = $1, is_fuzzy = TRUE,
\*            importance_current = importance_initial WHERE id = $2
fuzzify_conversation(table, gone, conv_id) ==
    IF conv_id \in Live(table, gone)
      THEN [table EXCEPT ![conv_id] =
                [@ EXCEPT !.summary = FuzzySummary,
                          !.is_fuzzy = TRUE,
                          !.importance_current = table[conv_id].importance_initial]]
      ELSE table

\* SELECT ... ORDER BY <distance> LIMIT $3: the possible row sets (the
\* embeddings of the summaries are not modelled: any ranking)
search_by_similarity(table, gone, limit) ==
    { S \in SUBSET Live(table, gone) :
        Cardinality(S) = Min(limit, Cardinality(Live(table, gone))) }

\* MemoryService.search_conversations as the message handler calls it, with
\* user_id, and as the plugin builds the service, over the repositories:
\* embed the query, search the rows
search_conversations(table, gone, limit) ==
    search_by_similarity(table, gone, limit)

\* an UPDATE without its WHERE clause
reset_on_access_all(table, gone, ids) ==
    [i \in 1..Len(table) |->
        [table[i] EXCEPT !.importance_current = table[i].importance_initial]]

\* an UPDATE that refreshes nothing
reset_on_access_none(table, gone, ids) == table

\* UPDATE ... SET last_accessed = NOW(), importance_current =
\*            importance_initial WHERE id = ANY($1)
reset_on_access(table, gone, ids) ==
    [i \in 1..Len(table) |->
        IF i \in ids /\ i \notin gone
          THEN [table[i] EXCEPT !.importance_current =
                                    table[i].importance_initial]
          ELSE table[i]]

touch_on_access(acc, table, gone, ids) ==
    acc \cup (ids \cap Live(table, gone))

\* what the forgetting side leaves alone
memoryRest == <<redisVars, handlerVars, tickVars, historyVars, otherVars>>

\* the same, for the steps that the history of the lifecycle records
memoryRestL == <<redisVars, handlerVars, tickVars, historyVars, lifeRest>>

\* the cycles the history counts for one row
MaxAge == 11

\* a row is stored
AgeStored == age' = IF lifecycle THEN Append(age, 0) ELSE age

\* a cycle reaches its decay
AgeCycle ==
    age' = IF lifecycle
             THEN [i \in DOMAIN age |->
                     IF i \in Live(conversations, deleted)
                         THEN Min(age[i] + 1, MaxAge) ELSE age[i]]
             ELSE age

\* a statement of the cycle raises
CycleFailed == f_failed' = (f_failed \/ lifecycle)

\* a consolidation stores a memory: perform_summary's store_conversation with
\* the importance of the summarizer's reply
StoreMemory ==
    /\ Len(conversations) < MaxMemories
    /\ \E raw \in RawImportances :
        conversations' =
            store_conversation(conversations, {}, normalize_importance(raw))
    /\ AgeStored
    /\ UNCHANGED <<now, memoryRestL, forgetVars, knowledgeVars, lifecycle, f_failed>>

\* search_conversations, search_by_similarity: the fetch; with no row found
\* the call returns the empty list at once
MemorySearchFetch ==
    /\ cpc = "idle"
    /\ \E limit \in Limits :
        \E rows \in search_conversations(conversations, deleted, limit) :
            /\ c_rows' = rows
            /\ cpc' = IF rows = {} THEN "idle" ELSE "reset"   \* if results:
    /\ UNCHANGED <<conversations, now, memoryRest, knowledgeVars,
                   deleted, accessed, fpc, f_rows, f_cur, f_outcome, f_done, f_sel>>

\* search_by_similarity: the UPDATE of the rows found, and `return results`
\* (c_rows keeps the rows the last search returned)
MemorySearchReset ==
    /\ cpc = "reset"
    /\ conversations' = reset_on_access(conversations, deleted, c_rows)
    /\ accessed' = touch_on_access(accessed, conversations, deleted, c_rows)
    /\ cpc' = "idle"
    /\ UNCHANGED <<now, memoryRest, knowledgeVars,
                   deleted, fpc, f_rows, f_cur, f_outcome, f_done, f_sel, c_rows>>

\* decay_and_cleanup is called by the daily job
ForgetStart ==
    /\ fpc = "idle"
    /\ \E forgetting_enabled \in BOOLEAN :
        IF forgetting_enabled
          THEN fpc' = "decay" /\ f_outcome' = "none"
          ELSE fpc' = "end" /\ f_outcome' = "disabled"       \* return
    /\ UNCHANGED <<conversations, now, memoryRest, knowledgeVars,
                   deleted, accessed, f_rows, f_cur, f_done, f_sel, cpc, c_rows>>

\* await self._daily_decay()
ForgetDecay ==
    /\ fpc = "decay"
    /\ conversations' = daily_decay(conversations)
    /\ fpc' = "delete_low"
    /\ AgeCycle
    /\ UNCHANGED <<lifecycle, f_failed>>
    /\ UNCHANGED <<now, memoryRestL, knowledgeVars,
                   deleted, accessed, f_rows, f_cur, f_outcome, f_done, f_sel,
                   cpc, c_rows>>

\* deleted_low = await self._delete_low_value_memories()
ForgetDeleteLow ==
    /\ fpc = "delete_low"
    /\ deleted' = delete_low_value_memories(conversations, deleted)
    /\ fpc' = "delete_fuzzy"
    /\ UNCHANGED <<conversations, now, memoryRest, knowledgeVars,
                   accessed, f_rows, f_cur, f_outcome, f_done, f_sel, cpc, c_rows>>

\* _fuzzify_and_cleanup_high_value_memories: the DELETE of the fuzzy rows
ForgetDeleteFuzzy ==
    /\ fpc = "delete_fuzzy"
    /\ deleted' = delete_fuzzy_memories(conversations, deleted)
    /\ fpc' = "select"
    /\ UNCHANGED <<conversations, now, memoryRest, knowledgeVars,
                   accessed, f_rows, f_cur, f_outcome, f_done, f_sel, cpc, c_rows>>

\* _fuzzify_and_cleanup_high_value_memories: rows = await conn.fetch(...)
ForgetSelect ==
    /\ fpc = "select"
    /\ f_rows' = select_for_fuzzify(conversations, deleted)
    /\ f_sel' = f_rows'
    /\ fpc' = "fuzzify"
    /\ UNCHANGED <<conversations, now, memoryRest, knowledgeVars,
                   deleted, accessed, f_cur, f_outcome, f_done, cpc, c_rows>>

\* for record in rows: _fuzzify_conversation awaits _generate_fuzzy_summary
\* (which returns the LLM's text or, when the LLM fails, a canned one)
ForgetGenerate ==
    /\ fpc = "fuzzify"
    /\ \E conv_id \in f_rows :
        f_cur' = conv_id
    /\ fpc' = "update"
    /\ UNCHANGED <<conversations, now, memoryRest, knowledgeVars,
                   deleted, accessed, f_rows, f_outcome, f_done, f_sel, cpc, c_rows>>

\* _fuzzify_conversation: the UPDATE
ForgetUpdate ==
    /\ fpc = "update"
    /\ conversations' = fuzzify_conversation(conversations, deleted, f_cur)
    /\ f_rows' = f_rows \ {f_cur}
    /\ f_done' = f_done \cup {f_cur}
    /\ f_cur' = 0
    /\ fpc' = "fuzzify"
    /\ UNCHANGED <<now, memoryRest, knowledgeVars,
                   deleted, accessed, f_outcome, f_sel, cpc, c_rows>>

\* _fuzzify_conversation: the UPDATE raises; `except Exception` logs it and
\* the loop goes on with the next record
ForgetUpdateRaise ==
    /\ fpc = "update"
    /\ f_rows' = f_rows \ {f_cur}
    /\ f_cur' = 0
    /\ fpc' = "fuzzify"
    /\ CycleFailed
    /\ UNCHANGED <<lifecycle, age>>
    /\ UNCHANGED <<conversations, now, memoryRestL, knowledgeVars,
                   deleted, accessed, f_outcome, f_done, f_sel, cpc, c_rows>>

\* the loop is over: the cycle logs its counts
ForgetFinish ==
    /\ fpc = "fuzzify"
    /\ f_rows = {}
    /\ fpc' = "end"
    /\ f_outcome' = "completed"
    /\ UNCHANGED <<conversations, now, memoryRest, knowledgeVars,
                   deleted, accessed, f_rows, f_cur, f_done, f_sel, cpc, c_rows>>

\* a statement of the cycle raises: decay_and_cleanup's `except Exception`
\* logs it and the cycle is over
ForgetRaise ==
    /\ fpc \in {"decay", "delete_low", "delete_fuzzy", "select"}
    /\ fpc' = "end"
    /\ f_outcome' = "failed"
    /\ CycleFailed
    /\ IF fpc = "decay" THEN AgeCycle ELSE UNCHANGED age
    /\ UNCHANGED lifecycle
    /\ UNCHANGED <<conversations, now, memoryRestL, knowledgeVars,
                   deleted, accessed, f_rows, f_cur, f_done, f_sel, cpc, c_rows>>

\* decay_and_cleanup returns
ForgetEnd ==
    /\ fpc = "end"
    /\ fpc' = "idle"
    /\ f_outcome' = "none"
    /\ f_rows' = {}
    /\ f_done' = {}
    /\ f_sel' = {}
    /\ UNCHANGED <<conversations, now, memoryRest, knowledgeVars,
                   deleted, accessed, f_cur, cpc, c_rows>>

NextForgetting ==
    \/ StoreMemory
    \/ MemorySearchFetch
    \/ MemorySearchReset
    \/ ForgetStart
    \/ ForgetDecay
    \/ ForgetDeleteLow
    \/ ForgetDeleteFuzzy
    \/ ForgetSelect
    \/ ForgetGenerate
    \/ ForgetUpdate
    \/ ForgetUpdateRaise
    \/ ForgetFinish
    \/ ForgetRaise
    \/ ForgetEnd

(***************************************************************************)
(* MessageHandler.process_message: the pre-filter, the @ path, the score   *)
(* and the proactive path.  The normal path is HandlePush, HandleCount and *)
(* HandleTokens above.  The pre-filter and the scorer change no state, so  *)
(* a call begins at the first step of the path they choose.                *)
(***************************************************************************)
\* proactive_max_per_hour of the configuration
proactive_max_per_hour == 1

\* the message a bot reply is stored as (is_bot, message_id "bot_<uuid>")
BotMessage == [id |-> 0]

\* what process_message gave: nothing yet, None, a reply, the canned text
\* "抱歉，我暂时无法回复。", or an exception to its caller
ProcessResults == {"none", "None", "reply", "fallback", "exception"}

\* what process_message reads of its event: event.to_me, the pre-filter's
\* should_skip for its text, and the score by the class process_message puts
\* it in ("low" below 0.3, "normal" up to proactive_score_threshold, "high"
\* from there; "unscored" when score_message was not called)
Event(n, to_me, should_skip, score) ==
    [id |-> n, to_me |-> to_me, should_skip |-> should_skip, score |-> score]

NoEvent == Event(0, FALSE, FALSE, "unscored")

ProcessAtRest ==
    /\ ppc = "idle"
    /\ p_attempt = 0
    /\ p_result = "none"
    /\ cooldown = FALSE
    /\ proactive_count = 0
    /\ p_event = NoEvent

\* a step of process_message that touches no Redis key of the buffer
ProcessOnly ==
    UNCHANGED <<redisVars, now, conversations, hpc, h_msg, tickVars, historyVars,
                knowledgeVars, forgetVars, processRest>>

\* a step of process_message that pushes `message`
ProcessPush(message) ==
    /\ buffer' = push_message(buffer, message)
    /\ pushed' = Append(pushed, message)
    /\ prev_tick' = "none"
    /\ Disturb
    /\ UNCHANGED <<message_count, token_count, last_summary, now, conversations,
                   hpc, h_msg, tickVars, knowledgeVars, forgetVars, processRest>>

\* filter_result.should_skip, or score < 0.3: _handle_low_value only logs,
\* and process_message returns None
ProcessLowValue ==
    /\ ppc = "idle"
    /\ nextMsg <= MaxMsgs
    /\ \E to_me \in BOOLEAN, should_skip \in BOOLEAN :
        /\ should_skip \/ ~to_me
        /\ p_event' = Event(nextMsg, to_me, should_skip,
                            IF should_skip THEN "unscored" ELSE "low")
        /\ nextMsg' = nextMsg + 1
        /\ p_result' = "None"
    /\ ProcessOnly
    /\ UNCHANGED <<ppc, p_attempt, cooldown, proactive_count>>

\* _handle_at_trigger: get_buffer and push_message
ProcessAtPush ==
    /\ ppc = "idle"
    /\ nextMsg <= MaxMsgs
    /\ ProcessPush([id |-> nextMsg])
    /\ p_event' = Event(nextMsg, TRUE, FALSE, "unscored")
    /\ nextMsg' = nextMsg + 1
    /\ ppc' = "at_search"
    /\ UNCHANGED <<p_attempt, p_result, cooldown, proactive_count>>

\* _handle_interrupt_signal returns None before it stores the message:
\* proactive replies are off, the group is on cooldown, or the hour's count
\* is used up
ProcessInterruptDrop ==
    /\ ppc = "idle"
    /\ nextMsg <= MaxMsgs
    /\ \E proactive_enabled \in BOOLEAN :
        \/ ~proactive_enabled
        \/ cooldown
        \/ proactive_count >= proactive_max_per_hour
    /\ p_event' = Event(nextMsg, FALSE, FALSE, "high")
    /\ nextMsg' = nextMsg + 1
    /\ p_result' = "None"
    /\ ProcessOnly
    /\ UNCHANGED <<ppc, p_attempt, cooldown, proactive_count>>

\* _handle_interrupt_signal: get_buffer and push_message
ProcessInterruptPush ==
    /\ ppc = "idle"
    /\ nextMsg <= MaxMsgs
    /\ ~cooldown
    /\ proactive_count < proactive_max_per_hour
    /\ ProcessPush([id |-> nextMsg])
    /\ p_event' = Event(nextMsg, FALSE, FALSE, "high")
    /\ nextMsg' = nextMsg + 1
    /\ ppc' = "pro_count"
    /\ UNCHANGED <<p_attempt, p_result, cooldown, proactive_count>>

\* _handle_interrupt_signal: increment_message_count
ProcessInterruptCount ==
    /\ ppc = "pro_count"
    /\ message_count' = message_count + 1
    /\ ppc' = "pro_search"
    /\ Disturb
    /\ UNCHANGED <<buffer, token_count, last_summary, now, conversations,
                   handlerVars, tickVars, pushed, prev_tick>>
    /\ UNCHANGED <<knowledgeVars, forgetVars, processRest>>
    /\ UNCHANGED <<p_attempt, p_result, cooldown, proactive_count>>
    /\ UNCHANGED p_event

\* memory.search_conversations of either path, then build_prompt (which
\* catches the failures of its knowledge search)
ProcessSearch ==
    /\ ppc \in {"at_search", "pro_search"}
    /\ \E limit \in Limits :
        \E rows \in search_conversations(conversations, deleted, limit) :
            /\ conversations' = reset_on_access(conversations, deleted, rows)
            /\ accessed' = touch_on_access(accessed, conversations, deleted, rows)
    /\ ppc' = IF ppc = "at_search" THEN "at_generate" ELSE "pro_generate"
    /\ p_attempt' = 0
    /\ UNCHANGED <<redisVars, now, handlerVars, tickVars, historyVars,
                   knowledgeVars, processRest>>
    /\ UNCHANGED <<deleted, fpc, f_rows, f_cur, f_outcome, f_done, f_sel,
                   cpc, c_rows>>
    /\ UNCHANGED <<p_result, cooldown, proactive_count>>
    /\ UNCHANGED p_event

\* generate_reply returns: the providers return the text or raise, so
\* `reply is not None` holds and the reply is stored next
ProcessGenerate ==
    /\ ppc \in {"at_generate", "pro_generate"}
    /\ \E reply \in {"text"} :
        IF reply # None
            THEN /\ ppc' = IF ppc = "at_generate" THEN "at_store" ELSE "pro_store"
                 /\ UNCHANGED p_result
            ELSE /\ ppc' = "idle"
                 /\ p_result' = IF ppc = "at_generate" THEN "fallback" ELSE "None"
    /\ nextMsg' = nextMsg
    /\ ProcessOnly
    /\ UNCHANGED <<p_attempt, cooldown, proactive_count>>
    /\ UNCHANGED p_event

\* generate_reply raises: retry_async(max_attempts=3) sleeps and calls again,
\* and re-raises after the last attempt; neither path nor process_message
\* catches, so the exception reaches the matcher
ProcessGenerateRaise ==
    /\ ppc \in {"at_generate", "pro_generate"}
    /\ IF p_attempt < max_attempts - 1
        THEN /\ p_attempt' = p_attempt + 1
             /\ UNCHANGED <<ppc, p_result>>
        ELSE /\ ppc' = "idle"
             /\ p_result' = "exception"
             /\ UNCHANGED p_attempt
    /\ nextMsg' = nextMsg
    /\ ProcessOnly
    /\ UNCHANGED <<cooldown, proactive_count>>
    /\ UNCHANGED p_event

\* _store_ai_reply; the @ path then returns the reply
ProcessStoreReply ==
    /\ ppc \in {"at_store", "pro_store"}
    /\ ProcessPush(BotMessage)
    /\ nextMsg' = nextMsg
    /\ ppc' = IF ppc = "at_store" THEN "idle" ELSE "pro_cooldown"
    /\ p_result' = IF ppc = "at_store" THEN "reply" ELSE p_result
    /\ UNCHANGED <<p_attempt, cooldown, proactive_count>>
    /\ UNCHANGED p_event

\* the proactive path: set_cooldown
ProcessSetCooldown ==
    /\ ppc = "pro_cooldown"
    /\ cooldown' = TRUE
    /\ ppc' = "pro_incr"
    /\ nextMsg' = nextMsg
    /\ ProcessOnly
    /\ UNCHANGED <<p_attempt, p_result, proactive_count>>
    /\ UNCHANGED p_event

\* the proactive path: increment_proactive_count, and the reply is returned
ProcessProactiveCount ==
    /\ ppc = "pro_incr"
    /\ proactive_count' = proactive_count + 1
    /\ ppc' = "idle"
    /\ p_result' = "reply"
    /\ nextMsg' = nextMsg
    /\ ProcessOnly
    /\ UNCHANGED <<p_attempt, cooldown>>
    /\ UNCHANGED p_event

\* the cooldown key expires
CooldownExpire ==
    /\ cooldown
    /\ cooldown' = FALSE
    /\ nextMsg' = nextMsg
    /\ ProcessOnly
    /\ UNCHANGED <<ppc, p_attempt, p_result, proactive_count>>
    /\ UNCHANGED p_event

\* the hour turns: the count is kept under a key of the new hour
HourTurns ==
    /\ proactive_count > 0
    /\ proactive_count' = 0
    /\ nextMsg' = nextMsg
    /\ ProcessOnly
    /\ UNCHANGED <<ppc, p_attempt, p_result, cooldown>>
    /\ UNCHANGED p_event

NextHandler ==
    \/ HandlePush
    \/ HandleCount
    \/ HandleTokens
    \/ ProcessLowValue
    \/ ProcessAtPush
    \/ ProcessInterruptDrop
    \/ ProcessInterruptPush
    \/ ProcessInterruptCount
    \/ ProcessSearch
    \/ ProcessGenerate
    \/ ProcessGenerateRaise
    \/ ProcessStoreReply
    \/ ProcessSetCooldown
    \/ ProcessProactiveCount
    \/ CooldownExpire
    \/ HourTurns

(***************************************************************************)
(* The scheduler's jobs: register_summary_task, unregister_summary_task    *)
(* (summary_worker.py) and ForgettingTaskManager.register, unregister      *)
(* (forgetting_worker.py).  The job store is a list of jobs, so that two   *)
(* jobs of one id can be told from one; a job carries the call that        *)
(* registered it, which stands for the services it was given.              *)
(***************************************************************************)
\* the register calls the model follows
MaxRegistrations == 5

SummaryJobId == "komari_memory_summary_worker"

ForgettingJobId == "komari_memory_forgetting_worker"

JobsWithId(store, id) == SelectSeq(store, LAMBDA j : j.id = id)

JobsWithoutId(store, id) == SelectSeq(store, LAMBDA j : j.id # id)

\* scheduler.add_job(...) that keeps a job of the same id
add_job_append(store, job, replace_existing) == Append(store, job)

\* scheduler.add_job(..., id=job.id, replace_existing=...): a job of the same
\* id is replaced; without replace_existing the call raises and adds nothing
add_job(store, job, replace_existing) ==
    IF Len(JobsWithId(store, job.id)) = 0
        THEN Append(store, job)
        ELSE IF replace_existing
                THEN Append(JobsWithoutId(store, job.id), job)
                ELSE store

\* scheduler.remove_job(id) where the job is there
remove_job(store, id) == JobsWithoutId(store, id)

SchedulerAtRest ==
    /\ jobs = <<>>
    /\ service = 0
    /\ registrations = 0
    /\ sched_result = "none"

SchedulerOnly == UNCHANGED <<knowledgeVars, memoryVars, forgetVars, schedRest>>

\* register_summary_task(redis, memory)
RegisterSummaryTask ==
    /\ registrations < MaxRegistrations
    /\ registrations' = registrations + 1
    /\ jobs' = add_job(jobs, [id |-> SummaryJobId, args |-> registrations + 1], TRUE)
    /\ sched_result' = "registered"
    /\ UNCHANGED service
    /\ SchedulerOnly

\* register_forgetting_task(service)
RegisterForgettingTask ==
    /\ registrations < MaxRegistrations
    /\ registrations' = registrations + 1
    /\ service' = registrations + 1
    /\ jobs' = add_job(jobs, [id |-> ForgettingJobId, args |-> 0], TRUE)
    /\ sched_result' = "registered"
    /\ SchedulerOnly

\* unregister_summary_task, unregister_forgetting_task: remove_job raises
\* JobLookupError where no job has the id, and the call swallows it
Unregister(id) ==
    /\ IF Len(JobsWithId(jobs, id)) = 0
        THEN /\ sched_result' = "ignored"           \* except Exception: pass
             /\ UNCHANGED jobs
        ELSE /\ sched_result' = "removed"
             /\ jobs' = remove_job(jobs, id)
    /\ UNCHANGED <<service, registrations>>
    /\ SchedulerOnly

UnregisterSummaryTask == Unregister(SummaryJobId)

UnregisterForgettingTask == Unregister(ForgettingJobId)

NextScheduler ==
    \/ RegisterSummaryTask
    \/ RegisterForgettingTask
    \/ UnregisterSummaryTask
    \/ UnregisterForgettingTask

\* the engine at rest, for the specification of the memory side
(***************************************************************************)
(* core/retry.py: retry_async(max_attempts, base_delay, max_delay,         *)
(* exceptions).  One call of the wrapper at a time; the wrapped function   *)
(* is any coroutine, so an invocation ends in one of three ways: it        *)
(* returns, it raises an exception of the `exceptions` tuple (Exception    *)
(* by default), or it raises something else (asyncio.CancelledError is a  *)
(* BaseException), which no `except exceptions` catches.                    *)
(***************************************************************************)
MaxAttempts == 4

\* max_attempts is a count of attempts, at least one (the repository's two
\* uses pass 3)
AttemptCounts == 1 .. MaxAttempts

\* what the functions the repository wraps raise: a failed request
\* (deepseek_client.py raises a bare Exception for a bad status) and a
\* missing API token (generate_text raises ValueError before any request)
RequestFailed == "Exception"

TokenMissing == "ValueError"

\* the exceptions the wrapper retries on: every Exception
Errors == {RequestFailed, TokenMissing}

Cancelled == "CancelledError"

NoError == "None"

RetryPending == [kind |-> "pending", value |-> NoError]

Returned == [kind |-> "return", value |-> "result"]

Raise(e) == [kind |-> "raise", value |-> e]

is_last_attempt_early(a, n) == a >= n - 2

\* line 47: attempt == max_attempts - 1
is_last_attempt(a, n) == a = n - 1

RetryAtRest ==
    /\ rpc = "idle"
    /\ r_max = 1
    /\ r_attempt = 0
    /\ r_last_error = NoError
    /\ r_result = RetryPending
    /\ r_outcomes = <<>>

RetryOnly == UNCHANGED <<knowledgeVars, memoryVars, forgetVars, retryRest>>

\* the caller calls the wrapper: last_error = None, the loop starts at 0
RetryCall(n) ==
    /\ rpc \in {"idle", "done"}
    /\ rpc' = "call"
    /\ r_max' = n
    /\ r_attempt' = 0
    /\ r_last_error' = NoError
    /\ r_result' = RetryPending
    /\ r_outcomes' = <<>>
    /\ RetryOnly

\* line 44: the function returns and the wrapper returns its result
RetryInvokeReturn ==
    /\ rpc = "call"
    /\ r_outcomes' = Append(r_outcomes, "ok")
    /\ r_result' = Returned
    /\ rpc' = "done"
    /\ UNCHANGED <<r_max, r_attempt, r_last_error>>
    /\ RetryOnly

\* lines 45-57: the function raises one of `exceptions`
RetryInvokeRaise(e) ==
    /\ rpc = "call"
    /\ r_outcomes' = Append(r_outcomes, e)
    /\ r_last_error' = e
    /\ IF is_last_attempt(r_attempt, r_max)
       THEN /\ r_result' = Raise(e)
            /\ rpc' = "done"
       ELSE /\ r_result' = r_result
            /\ rpc' = "sleep"
    /\ UNCHANGED <<r_max, r_attempt>>
    /\ RetryOnly

\* the function raises what `except exceptions` does not catch
RetryInvokeCancelled ==
    /\ rpc = "call"
    /\ r_outcomes' = Append(r_outcomes, Cancelled)
    /\ r_result' = Raise(Cancelled)
    /\ rpc' = "done"
    /\ UNCHANGED <<r_max, r_attempt, r_last_error>>
    /\ RetryOnly

\* line 57, then line 42: the sleep ends and the loop takes its next value,
\* or has none left and lines 60-63 raise last_error
RetrySleepEnds ==
    /\ rpc = "sleep"
    /\ IF r_attempt + 1 < r_max
       THEN /\ r_attempt' = r_attempt + 1
            /\ rpc' = "call"
            /\ r_result' = r_result
       ELSE /\ r_attempt' = r_attempt
            /\ rpc' = "done"
            /\ r_result' = Raise(r_last_error)
    /\ UNCHANGED <<r_max, r_last_error, r_outcomes>>
    /\ RetryOnly

NextRetry ==
    \/ \E n \in AttemptCounts : RetryCall(n)
    \/ RetryInvokeReturn
    \/ \E e \in Errors : RetryInvokeRaise(e)
    \/ RetryInvokeCancelled
    \/ RetrySleepEnds

(***************************************************************************)
(* MessageHandler._handle_interrupt_signal under concurrency.  The bot      *)
(* hands every group message to its own task, so several calls of          *)
(* process_message for one group are in flight together and interleave at  *)
(* their awaits.  The calls followed here are those of messages scored at  *)
(* or above proactive_score_threshold with proactive replies enabled; each *)
(* stops at every Redis call and at the generation.                        *)
(***************************************************************************)
NumCalls == 2

Calls == 1 .. NumCalls

ProactiveAtRest ==
    /\ qpc = [c \in Calls |-> "idle"]
    /\ q_attempt = [c \in Calls |-> 0]
    /\ q_result = [c \in Calls |-> "none"]
    /\ window = 0

\* what a step of these calls leaves alone besides the Redis keys
InterruptFrame ==
    UNCHANGED <<knowledgeVars, ktasks, schedVars, entityVars, batchVars, lifeVars,
                retryVars, promptVars, engineVars, ppc, p_attempt, p_result,
                p_event, hpc,
                h_msg, tickVars,
                last_summary, now, token_count>>

\* a step of one call that writes nothing
InterruptReads ==
    /\ InterruptFrame
    /\ UNCHANGED <<buffer, message_count, conversations, nextMsg, historyVars,
                   forgetVars, cooldown, proactive_count, window>>

\* lines 272-274: is_on_cooldown
InterruptCooldown(c) ==
    /\ qpc[c] = "idle"
    /\ nextMsg + Cardinality({d \in Calls : qpc[d] \in {"count", "push"}}) <= MaxMsgs
    /\ IF cooldown
       THEN /\ q_result' = [q_result EXCEPT ![c] = "None"]
            /\ UNCHANGED qpc
       ELSE /\ qpc' = [qpc EXCEPT ![c] = "count"]
            /\ q_result' = [q_result EXCEPT ![c] = "none"]
    /\ UNCHANGED q_attempt
    /\ InterruptReads

\* lines 277-280: get_proactive_count
InterruptCount(c) ==
    /\ qpc[c] = "count"
    /\ IF proactive_count >= proactive_max_per_hour
       THEN /\ q_result' = [q_result EXCEPT ![c] = "None"]
            /\ qpc' = [qpc EXCEPT ![c] = "idle"]
       ELSE /\ qpc' = [qpc EXCEPT ![c] = "push"]
            /\ UNCHANGED q_result
    /\ UNCHANGED q_attempt
    /\ InterruptReads

\* lines 283-286: get_buffer and push_message
InterruptPush(c) ==
    /\ qpc[c] = "push"
    /\ buffer' = push_message(buffer, [id |-> nextMsg])
    /\ pushed' = Append(pushed, [id |-> nextMsg])
    /\ nextMsg' = nextMsg + 1
    /\ prev_tick' = "none"
    /\ Disturb
    /\ qpc' = [qpc EXCEPT ![c] = "incr"]
    /\ InterruptFrame
    /\ UNCHANGED <<message_count, conversations, forgetVars, cooldown,
                   proactive_count, window, q_attempt, q_result>>

\* line 287: increment_message_count
InterruptIncrement(c) ==
    /\ qpc[c] = "incr"
    /\ message_count' = message_count + 1
    /\ Disturb
    /\ qpc' = [qpc EXCEPT ![c] = "search"]
    /\ InterruptFrame
    /\ UNCHANGED <<buffer, conversations, nextMsg, pushed, prev_tick, forgetVars,
                   cooldown, proactive_count, window, q_attempt, q_result>>

\* lines 290-305: search_conversations, then build_prompt
InterruptSearch(c) ==
    /\ qpc[c] = "search"
    /\ \E limit \in Limits :
        \E rows \in search_conversations(conversations, deleted, limit) :
            /\ conversations' = reset_on_access(conversations, deleted, rows)
            /\ accessed' = touch_on_access(accessed, conversations, deleted, rows)
    /\ qpc' = [qpc EXCEPT ![c] = "generate"]
    /\ q_attempt' = [q_attempt EXCEPT ![c] = 0]
    /\ InterruptFrame
    /\ UNCHANGED <<buffer, message_count, nextMsg, historyVars, cooldown,
                   proactive_count, window, q_result>>
    /\ UNCHANGED <<deleted, fpc, f_rows, f_cur, f_outcome, f_done, f_sel,
                   cpc, c_rows>>

\* lines 308-313: generate_reply returns the text
InterruptGenerate(c) ==
    /\ qpc[c] = "generate"
    /\ qpc' = [qpc EXCEPT ![c] = "store"]
    /\ UNCHANGED <<q_attempt, q_result>>
    /\ InterruptReads

\* generate_reply raises: its wrapper calls again, and re-raises after the
\* last attempt
InterruptGenerateRaise(c) ==
    /\ qpc[c] = "generate"
    /\ IF is_last_attempt(q_attempt[c], max_attempts)
       THEN /\ qpc' = [qpc EXCEPT ![c] = "idle"]
            /\ q_result' = [q_result EXCEPT ![c] = "exception"]
            /\ UNCHANGED q_attempt
       ELSE /\ q_attempt' = [q_attempt EXCEPT ![c] = q_attempt[c] + 1]
            /\ UNCHANGED <<qpc, q_result>>
    /\ InterruptReads

\* lines 316-322: _store_ai_reply
InterruptStoreReply(c) ==
    /\ qpc[c] = "store"
    /\ buffer' = push_message(buffer, BotMessage)
    /\ pushed' = Append(pushed, BotMessage)
    /\ prev_tick' = "none"
    /\ Disturb
    /\ qpc' = [qpc EXCEPT ![c] = "cooldown"]
    /\ InterruptFrame
    /\ UNCHANGED <<message_count, conversations, nextMsg, forgetVars, cooldown,
                   proactive_count, window, q_attempt, q_result>>

\* line 323: set_cooldown
InterruptSetCooldown(c) ==
    /\ qpc[c] = "cooldown"
    /\ cooldown' = TRUE
    /\ window' = window + 1
    /\ qpc' = [qpc EXCEPT ![c] = "proactive"]
    /\ InterruptFrame
    /\ UNCHANGED <<buffer, message_count, conversations, nextMsg, historyVars,
                   forgetVars, proactive_count, q_attempt, q_result>>

\* lines 324-329: increment_proactive_count, and the reply is returned
InterruptReply(c) ==
    /\ qpc[c] = "proactive"
    /\ proactive_count' = proactive_count + 1
    /\ qpc' = [qpc EXCEPT ![c] = "idle"]
    /\ q_result' = [q_result EXCEPT ![c] = "reply"]
    /\ InterruptFrame
    /\ UNCHANGED <<buffer, message_count, conversations, nextMsg, historyVars,
                   forgetVars, cooldown, window, q_attempt>>

\* the cooldown key expires, `proactive_cooldown` seconds after the last
\* set_cooldown
InterruptCooldownExpires ==
    /\ cooldown
    /\ cooldown' = FALSE
    /\ window' = 0
    /\ InterruptFrame
    /\ UNCHANGED <<buffer, message_count, conversations, nextMsg, historyVars,
                   forgetVars, proactive_count, qpc, q_attempt, q_result>>

\* the hour turns
InterruptHourTurns ==
    /\ proactive_count > 0
    /\ proactive_count' = 0
    /\ InterruptFrame
    /\ UNCHANGED <<buffer, message_count, conversations, nextMsg, historyVars,
                   forgetVars, cooldown, window, qpc, q_attempt, q_result>>

NextProactive ==
    \/ \E c \in Calls :
        \/ InterruptCooldown(c)
        \/ InterruptCount(c)
        \/ InterruptPush(c)
        \/ InterruptIncrement(c)
        \/ InterruptSearch(c)
        \/ InterruptGenerate(c)
        \/ InterruptGenerateRaise(c)
        \/ InterruptStoreReply(c)
        \/ InterruptSetCooldown(c)
        \/ InterruptReply(c)
    \/ InterruptCooldownExpires
    \/ InterruptHourTurns

(***************************************************************************)
(* services/prompt_builder.py: build_prompt.  A buffered message is its    *)
(* place in recent_messages and its is_bot; a block of `contents` is its   *)
(* role and the texts joined in its text, in order.  The background block  *)
(* is always there (background_parts holds the current time at least) and  *)
(* is followed by the model's confirmation.                                *)
(***************************************************************************)
MaxRecent == 4

\* the recent_messages build_prompt may be given: None or empty, or the
\* messages of the buffer, oldest first
RecentMessage(i, is_bot) == [id |-> i, is_bot |-> is_bot]

RecentLists ==
    UNION {{[i \in 1 .. n |-> RecentMessage(i, f[i])] : f \in [1 .. n -> BOOLEAN]}
             : n \in 0 .. MaxRecent}

UserMessages == {"hello", "bye"}

NoSide == "None"

\* lines 212-223: this_side and msg_text (a user's text gets "- name: ")
this_side(msg) == IF msg.is_bot THEN "model" ELSE "user"

msg_text(msg) == [id |-> msg.id, prefixed |-> ~msg.is_bot]

Block(role, parts) == [role |-> role, parts |-> parts]

BackgroundBlocks ==
    <<Block("user", <<"background">>), Block("model", <<"background_confirmation">>)>>

\* lines 252-259: the current request
CurrentBlock(user_message) ==
    Block("user", <<[user_input |-> user_message], "character_instruction">>)

side_changed_always(current_side, side) == current_side # NoSide

\* line 226: the side switches
side_changed(current_side, side) ==
    current_side # NoSide /\ side # current_side

PromptAtRest ==
    /\ bpc = "idle"
    /\ b_recent = <<>>
    /\ b_user_message = "hello"
    /\ b_i = 0
    /\ b_contents = <<>>
    /\ b_block = <<>>
    /\ b_side = NoSide

PromptOnly == UNCHANGED <<knowledgeVars, memoryVars, forgetVars, promptRest>>

\* lines 111-209: the call, up to the loop over recent_messages
BuildBackground(recent, user_message) ==
    /\ bpc \in {"idle", "done"}
    /\ b_recent' = recent
    /\ b_user_message' = user_message
    /\ b_contents' = BackgroundBlocks
    /\ b_block' = <<>>
    /\ b_side' = NoSide
    /\ b_i' = 0
    /\ bpc' = "history"
    /\ PromptOnly

\* lines 211-233: one turn of the loop
BuildHistoryStep ==
    /\ bpc = "history"
    /\ b_i < Len(b_recent)
    /\ LET msg == b_recent[b_i + 1]
           switch == side_changed(b_side, this_side(msg))
       IN  /\ b_contents' = IF switch
                            THEN Append(b_contents, Block(b_side, b_block))
                            ELSE b_contents
           /\ b_block' = Append(IF switch THEN <<>> ELSE b_block, msg_text(msg))
           /\ b_side' = this_side(msg)
    /\ b_i' = b_i + 1
    /\ UNCHANGED <<bpc, b_recent, b_user_message>>
    /\ PromptOnly

\* lines 236-267: the last block of the history, the current request, return
BuildCurrent ==
    /\ bpc = "history"
    /\ b_i = Len(b_recent)
    /\ b_contents' =
          Append(IF b_block # <<>>
                 THEN Append(b_contents, Block(b_side, b_block))
                 ELSE b_contents,
                 CurrentBlock(b_user_message))
    /\ bpc' = "done"
    /\ UNCHANGED <<b_recent, b_user_message, b_i, b_block, b_side>>
    /\ PromptOnly

NextPrompt ==
    \/ \E recent \in RecentLists, user_message \in UserMessages :
          BuildBackground(recent, user_message)
    \/ BuildHistoryStep
    \/ BuildCurrent

(***************************************************************************)
(* engine.py: the global `_engine`, get_engine and initialize_engine, with *)
(* MemoryEngine.initialize.  The tasks are the callers of                  *)
(* initialize_engine (the startup hook, and whoever else calls it); the    *)
(* engine is what initialize fills in: the embedding model, the pool and   *)
(* the keyword index.                                                      *)
(***************************************************************************)
NumInitTasks == 2

InitTasks == 1 .. NumInitTasks

\* `_engine` is None
NoEngine ==
    [is_none |-> TRUE, embed_model |-> FALSE, pool |-> FALSE, index_loaded |-> FALSE]

\* MemoryEngine(): nothing loaded
NewEngine ==
    [is_none |-> FALSE, embed_model |-> FALSE, pool |-> FALSE, index_loaded |-> FALSE]

\* initialize has run to its end on the engine
FullyInitialized(e) == ~e.is_none /\ e.embed_model /\ e.pool /\ e.index_loaded

EngineAtRest ==
    /\ g_engine = NoEngine
    /\ ipc = [t \in InitTasks |-> "idle"]
    /\ g_got = NoEngine

EngineOnly == UNCHANGED <<knowledgeVars, memoryVars, forgetVars, engineRest>>

\* get_engine: return _engine
GetEngine ==
    /\ g_got' = g_engine
    /\ UNCHANGED <<g_engine, ipc>>
    /\ EngineOnly

\* initialize_engine, lines 581-583: `if _engine is None` and the
\* assignment `_engine = MemoryEngine()`, before initialize is awaited; or
\* line 585, return _engine
InitializeEngine(t) ==
    /\ ipc[t] \in {"idle", "returned", "raised"}
    /\ IF g_engine = NoEngine
       THEN /\ g_engine' = NewEngine
            /\ ipc' = [ipc EXCEPT ![t] = "embed_model"]
       ELSE /\ g_engine' = g_engine
            /\ ipc' = [ipc EXCEPT ![t] = "returned"]
    /\ UNCHANGED g_got
    /\ EngineOnly

\* initialize, lines 117-125: the embedding model is loaded in a thread
InitializeEmbedModel(t) ==
    /\ ipc[t] = "embed_model"
    /\ g_engine' = [g_engine EXCEPT !.embed_model = TRUE]
    /\ ipc' = [ipc EXCEPT ![t] = "pool"]
    /\ UNCHANGED g_got
    /\ EngineOnly

\* initialize, lines 128-141: asyncpg.create_pool
InitializePool(t) ==
    /\ ipc[t] = "pool"
    /\ g_engine' = [g_engine EXCEPT !.pool = TRUE]
    /\ ipc' = [ipc EXCEPT ![t] = "index"]
    /\ UNCHANGED g_got
    /\ EngineOnly

\* initialize, line 144: _build_keyword_index; initialize_engine returns
InitializeIndex(t) ==
    /\ ipc[t] = "index"
    /\ g_engine' = [g_engine EXCEPT !.index_loaded = TRUE]
    /\ ipc' = [ipc EXCEPT ![t] = "returned"]
    /\ UNCHANGED g_got
    /\ EngineOnly

\* a step of initialize raises (the model cannot be loaded, the database is
\* not there): nothing catches it in initialize or initialize_engine, and
\* `_engine` stays as it is
InitializeRaise(t) ==
    /\ ipc[t] \in {"embed_model", "pool", "index"}
    /\ ipc' = [ipc EXCEPT ![t] = "raised"]
    /\ UNCHANGED <<g_engine, g_got>>
    /\ EngineOnly

NextEngine ==
    \/ GetEngine
    \/ \E t \in InitTasks :
        \/ InitializeEngine(t)
        \/ InitializeEmbedModel(t)
        \/ InitializePool(t)
        \/ InitializeIndex(t)
        \/ InitializeRaise(t)

ToolsAtRest == RetryAtRest /\ ProactiveAtRest /\ PromptAtRest /\ EngineAtRest

KnowledgeAtRest ==
    /\ knowledge = EmptyTable
    /\ nextId = 1
    /\ keyword_index = build_keyword_index(EmptyTable)
    /\ index_loaded = TRUE
    /\ spc = "idle"
    /\ s_query = <<>>
    /\ s_limit = 0
    /\ s_matched = {}
    /\ results = <<>>

NextKnowledge ==
    \/ AddKnowledge
    \/ DeleteKnowledge
    \/ UpdateKnowledge
    \/ SearchBegin
    \/ SearchLayer1
    \/ SearchLayer2
    \/ SearchLayer2Raise
    \/ SearchReturn

\* no forgetting cycle and no memory search, for the other specifications
ForgettingAtRest ==
    /\ deleted = {}
    /\ accessed = {}
    /\ fpc = "idle"
    /\ f_rows = {}
    /\ f_cur = 0
    /\ f_outcome = "none"
    /\ f_done = {}
    /\ f_sel = {}
    /\ cpc = "idle"
    /\ c_rows = {}

TasksAtRest == ktasks = [t \in Tasks |-> Task0]

\* no history of the lifecycle is kept
LifeAtRest ==
    /\ lifecycle = FALSE
    /\ age = <<>>
    /\ f_failed = FALSE

(***************************************************************************)
(* The two batch jobs side by side: the tick of the consolidation job with *)
(* a summarizer whose replies list entities, and the forgetting cycle.     *)
(* It starts where the handler has stored and counted                      *)
(* summary_message_threshold messages of one token each, and an earlier    *)
(* consolidation has stored one memory.  The calls of the tick other than  *)
(* the upserts return here; their failures are PerformRaise of NextMemory. *)
(***************************************************************************)
RECURSIVE PushedUpTo(_)
PushedUpTo(n) == IF n = 0 THEN <<>> ELSE Append(PushedUpTo(n - 1), [id |-> n])

RECURSIVE BufferUpTo(_)
BufferUpTo(n) ==
    IF n = 0 THEN <<>> ELSE push_message(BufferUpTo(n - 1), [id |-> n])

InitBatch ==
    /\ KnowledgeAtRest
    /\ ForgettingAtRest
    /\ TasksAtRest /\ ProcessAtRest /\ SchedulerAtRest /\ EntitiesAtRest
    /\ LifeAtRest /\ ToolsAtRest
    /\ buffer = BufferUpTo(summary_message_threshold)
    /\ pushed = PushedUpTo(summary_message_threshold)
    /\ message_count = summary_message_threshold
    /\ token_count = summary_message_threshold
    /\ last_summary = NoTime
    /\ now = 0
    /\ nextMsg = summary_message_threshold + 1
    /\ conversations = store_conversation(<<>>, {}, CHOOSE i \in Importances : TRUE)
    /\ hpc = "idle"
    /\ h_msg = [id |-> summary_message_threshold, tokens |-> 1]
    /\ tpc = "idle"
    /\ attempt = 0
    /\ messages_buffer = <<>>
    /\ t_reason = "none"
    /\ outcome = "none"
    /\ snap = NoSnap
    /\ disturbed = FALSE
    /\ prev_tick = "none"
    /\ s_attempt = 0
    /\ summarize_calls = 0
    /\ t_entities = <<>>
    /\ pending = <<>>
    /\ e_log = <<>>
    /\ extraction = TRUE

NextBatch ==
    \/ TickStart
    \/ TickCheck
    \/ PerformGetBuffer
    \/ PerformSummarize
    \/ PerformStore
    \/ PerformUpsert
    \/ PerformUpsertRaise
    \/ PerformResetCount
    \/ PerformResetTokens
    \/ PerformDeleteBuffer
    \/ PerformUpdateLast
    \/ TickEnd
    \/ ForgetStart
    \/ ForgetDecay
    \/ ForgetDeleteLow
    \/ ForgetDeleteFuzzy
    \/ ForgetSelect
    \/ ForgetGenerate
    \/ ForgetUpdate
    \/ ForgetUpdateRaise
    \/ ForgetFinish
    \/ ForgetRaise
    \/ ForgetEnd

\* no tick has run; the summarizer's replies list no entities
BatchAtRest ==
    /\ s_attempt = 0
    /\ summarize_calls = 0
    /\ t_entities = <<>>
    /\ pending = <<>>
    /\ e_log = <<>>
    /\ extraction = FALSE

OthersAtRest ==
    /\ TasksAtRest /\ ProcessAtRest /\ SchedulerAtRest /\ EntitiesAtRest
    /\ BatchAtRest /\ LifeAtRest /\ ToolsAtRest

InitK == InitKnowledge /\ InitMemory /\ ForgettingAtRest /\ OthersAtRest

InitM == KnowledgeAtRest /\ InitMemory /\ ForgettingAtRest /\ OthersAtRest

SpecKnowledge == InitK /\ [][NextKnowledge]_vars

SpecMemory == InitM /\ [][NextMemory]_vars

SpecTasks == InitK /\ [][NextTasks]_vars

InitF == KnowledgeAtRest /\ InitMemory /\ ForgettingAtRest /\ OthersAtRest

SpecForgetting == InitF /\ [][NextForgetting]_vars

SpecHandler == InitM /\ [][NextHandler]_vars

SpecScheduler == InitM /\ [][NextScheduler]_vars

SpecEntities == InitM /\ [][NextEntities]_vars

SpecSummarize == InitM /\ [][NextSummarize]_vars

SpecBatch == InitBatch /\ [][NextBatch]_vars

\* the memories that no search returns, with the history of their lifecycle
InitLifecycle ==
    /\ KnowledgeAtRest /\ InitMemory /\ ForgettingAtRest
    /\ TasksAtRest /\ ProcessAtRest /\ SchedulerAtRest /\ EntitiesAtRest
    /\ BatchAtRest /\ ToolsAtRest
    /\ lifecycle = TRUE
    /\ age = <<>>
    /\ f_failed = FALSE

NextLifecycle ==
    \/ StoreMemory
    \/ ForgetStart
    \/ ForgetDecay
    \/ ForgetDeleteLow
    \/ ForgetDeleteFuzzy
    \/ ForgetSelect
    \/ ForgetGenerate
    \/ ForgetUpdate
    \/ ForgetUpdateRaise
    \/ ForgetFinish
    \/ ForgetRaise
    \/ ForgetEnd

SpecLifecycle == InitLifecycle /\ [][NextLifecycle]_vars

SpecRetry == InitM /\ [][NextRetry]_vars

SpecProactive == InitM /\ [][NextProactive]_vars

SpecPrompt == InitM /\ [][NextPrompt]_vars

SpecEngine == InitM /\ [][NextEngine]_vars

\* the consolidation under fair scheduling: the summarizer, the store and
\* Redis succeed (no step raises); the scheduler runs the tick again and
\* again and every tick runs to its end; a handler that has pushed its
\* message goes on to count it; the clock moves.  Messages arrive or not.
\* The summarizer gives a summary
PerformSummarizeGiven ==
    /\ PerformSummarize
    /\ tpc' = "store"

TickStep ==
    \/ TickStart
    \/ TickCheck
    \/ PerformGetBuffer
    \/ PerformSummarizeGiven
    \/ PerformStore
    \/ PerformResetCount
    \/ PerformResetTokens
    \/ PerformDeleteBuffer
    \/ PerformUpdateLast
    \/ TickEnd

HandlerStep == HandleCount \/ HandleTokens

NextLive ==
    \/ HandlePush
    \/ HandlerStep
    \/ AdvanceTime
    \/ TickStep

SpecLive ==
    /\ InitM
    /\ [][NextLive]_vars
    /\ WF_vars(TickStep)
    /\ WF_vars(HandlerStep)
    /\ WF_vars(AdvanceTime)

(***************************************************************************)
(* Properties of the knowledge engine (SpecKnowledge).                     *)
(***************************************************************************)
\* the lower-case forms of the keywords of persisted record i
RecordKeys(i) ==
    { Lower(knowledge[i].keywords[j]) : j \in 1..Len(knowledge[i].keywords) }

\* every key a caller can produce, and every key of the index
AllKeys ==
    (DOMAIN keyword_index) \cup
    UNION { { Lower(kws[j]) : j \in 1..Len(kws) } : kws \in KeywordLists }

\* C1: after any sequence of add_knowledge / update_knowledge / delete_knowledge
\* calls run one after another, the keyword index is what a rebuild from the
\* table gives: id i is in index[k] exactly when persisted record i has a
\* keyword whose lower-case form is k.
C1_IndexMatchesRecords ==
    \A k \in AllKeys : \A i \in 1..MaxId :
        (i \in Bucket(keyword_index, k))
            <=> (i \in DOMAIN knowledge /\ k \in RecordKeys(i))

\* records were added up to the bound, a removal emptied a bucket of the
\* index, and a record with keywords is persisted
C1_Witness ==
    /\ nextId = MaxId + 1
    /\ \E k \in DOMAIN keyword_index : keyword_index[k] = {}
    /\ \E i \in DOMAIN knowledge : Len(knowledge[i].keywords) > 0

\* the persisted records one of whose keywords, lower-cased, is a substring
\* of the lower-cased query
KeywordRecords(query) ==
    { i \in DOMAIN knowledge :
        \E k \in RecordKeys(i) : IsSubstring(k, Lower(query)) }

\* C11: Layer 1 matches by case-insensitive substring: the records it
\* matches for a (non-blank) query are exactly those with a keyword whose
\* lower-case form is a substring of the lower-cased query; when there are
\* at most `limit` of them, search() returns each one still persisted with
\* source "keyword" and similarity 1.0.
C11_SubstringMatch ==
    /\ [][ (spc = "idle" /\ spc' \in {"layer1", "layer2"})
             => s_matched' = KeywordRecords(s_query') ]_vars
    /\ [](spc = "done" /\ ~IsBlank(s_query) /\ Cardinality(s_matched) <= s_limit
             => \A i \in s_matched \cap DOMAIN knowledge :
                   \E n \in 1..Len(results) : results[n] = KeywordHit(i))

\* a search returned two keyword hits for a query that contains the
\* keywords in another case
C11_Witness ==
    /\ spc = "done"
    /\ s_query = <<"a", "B">>
    /\ Cardinality(s_matched) = 2
    /\ Len(results) = 2
    /\ \A n \in 1..2 : results[n].source = "keyword" /\ results[n].similarity = 1

\* C12: a Layer 2 failure leaves search() as a failure only when Layer 1
\* produced no result; with at least one keyword hit search() returns the
\* hits.
C12_Layer2FailureKeepsHits ==
    spc = "raised" => results = <<>>

\* C9: the list search() returns has no id twice, and a record Layer 1
\* matched appears in it only as a keyword result of similarity 1.0.
C9_NoDuplicates ==
    spc = "done" =>
        /\ \A i, j \in 1..Len(results) : i # j => results[i].id # results[j].id
        /\ \A i \in 1..Len(results) :
              results[i].id \in s_matched =>
                  /\ results[i].source = "keyword"
                  /\ results[i].similarity = 1

\* a search returned a keyword result followed by a vector result
C9_Witness ==
    /\ spc = "done"
    /\ Len(results) = 2
    /\ results[1].source = "keyword"
    /\ results[1].id \in s_matched
    /\ results[2].source = "vector"

\* C10: in the list search() returns the keyword results come before the
\* vector results, and the vector results are in order of non-increasing
\* similarity.
C10_Ordered ==
    spc = "done" =>
        \A i, j \in 1..Len(results) :
            i < j =>
                /\ results[i].source = "vector" => results[j].source = "vector"
                /\ (results[i].source = "vector" /\ results[j].source = "vector")
                      => results[i].similarity >= results[j].similarity

\* a search returned two vector results, the second less similar
C10_Witness ==
    /\ spc = "done"
    /\ Len(results) = 2
    /\ results[1].source = "vector"
    /\ results[2].source = "vector"
    /\ results[1].similarity > results[2].similarity

(***************************************************************************)
(* Properties of the message buffer and of consolidation (SpecMemory).     *)
(***************************************************************************)
\* the n most recent elements of a list, in arrival order
LastN(list, n) == SubSeq(list, Len(list) - n + 1, Len(list))

\* the messages the stored memories were summarized from
Summarized == UNION { conversations[i].msgs : i \in 1..Len(conversations) }

\* C2: a push on a full buffer drops the oldest message and keeps the new
\* one: after any number of pushes the buffer holds the most recent
\* message_buffer_size messages pushed.
C2_KeepsMostRecent ==
    buffer = LastN(pushed, Min(Len(pushed), message_buffer_size))

\* C3: get_buffer(conversation, limit) returns the most recent
\* min(limit, buffer length) messages of the buffer, in arrival order.
C3_ReturnsMostRecent ==
    \A limit \in 1..(message_buffer_size + 1) :
        get_buffer(buffer, limit) = LastN(buffer, Min(limit, Len(buffer)))

\* C4: after n pushes, get_buffer with a limit of at least message_buffer_size
\* returns min(n, message_buffer_size) messages, never more than
\* message_buffer_size, and exactly the n pushed messages in arrival order
\* when n is at most message_buffer_size.
C4_BufferBounded ==
    \A limit \in {message_buffer_size, message_buffer_size + 1, SummaryLimit} :
        LET r == get_buffer(buffer, limit)
        IN  /\ Len(r) = Min(Len(pushed), message_buffer_size)
            /\ Len(r) <= message_buffer_size
            /\ Len(pushed) <= message_buffer_size => r = pushed

\* more messages were pushed than the buffer holds
C4_Witness ==
    /\ Len(pushed) > message_buffer_size
    /\ Len(buffer) = message_buffer_size

\* C5: consolidation loses no buffered message: in every interleaving of
\* the handler with a tick, each message delete_buffer removes was in the
\* list summarized for a memory that was stored.
C5_NoMessageLost ==
    tpc = "delete_buffer" => Ids(buffer) \subseteq Summarized

\* C6: a tick in which every attempt raised committed nothing: no memory
\* was stored, and message_count, token_count, the buffer and last_summary
\* are as before the tick.
C6_FailedTickCommitsNothing ==
    (tpc = "end" /\ outcome = "failed" /\ ~disturbed) =>
        /\ Len(conversations) = snap.nconv
        /\ message_count = snap.message_count
        /\ token_count = snap.token_count
        /\ buffer = snap.buffer
        /\ last_summary = snap.last_summary

C8_TriggerDecision ==
    [][ (tpc = "check" /\ tpc' # "check") =>
          LET by_count  == message_count >= summary_message_threshold
              by_time   == /\ last_summary # NoTime
                           /\ now - last_summary >= summary_time_threshold
              by_tokens == token_count >= summary_token_threshold
          IN  /\ (tpc' = "get_buffer") <=> (by_count \/ by_time \/ by_tokens)
              /\ t_reason' = IF by_count THEN "count"
                             ELSE IF by_time THEN "time"
                             ELSE IF by_tokens THEN "tokens"
                             ELSE "none"
              /\ UNCHANGED <<message_count, token_count, last_summary, buffer>>
      ]_vars

\* the check answered on the time since the last summary
C8_Witness ==
    /\ tpc = "get_buffer"
    /\ t_reason = "time"
    /\ message_count < summary_message_threshold

(***************************************************************************)
(* Conversation-memory search and forgetting (SpecForgetting)              *)
(***************************************************************************)
Conv(i) == conversations[i]

C15_FuzzyOnce ==
    /\ [][ /\ \A i \in Live(conversations, deleted) :
                Conv(i).is_fuzzy => Conv(i)'.is_fuzzy
           /\ (fpc = "update" /\ conversations' # conversations) =>
                ~Conv(f_cur).is_fuzzy
           /\ (fpc = "delete_fuzzy" /\ fpc' = "select") =>
                \A i \in Live(conversations, deleted) :
                    (Conv(i).is_fuzzy /\ Conv(i).importance_current = 0)
                        => i \in deleted' ]_vars
    /\ []( (fpc \in {"select", "fuzzify", "update"}
                \/ (fpc = "end" /\ f_outcome = "completed")) =>
             \A i \in Live(conversations, deleted) :
                 ~(Conv(i).is_fuzzy /\ Conv(i).importance_current = 0) )

\* the high-value phase has deleted a fuzzy record next to one it is about to
\* fuzzify for the first time
C15_Witness ==
    /\ fpc = "fuzzify"
    /\ \E i \in deleted : Conv(i).is_fuzzy
    /\ \E j \in f_rows : ~Conv(j).is_fuzzy

\* C16: at the end of every completed forgetting cycle no record has
\* importance_current = 0 and importance_initial <= forgetting_importance_threshold
C16_NoLowValueZeroSurvives ==
    (fpc = "end" /\ f_outcome = "completed") =>
        \A i \in Live(conversations, deleted) :
            ~(/\ Conv(i).importance_current = 0
              /\ Conv(i).importance_initial <= forgetting_importance_threshold)

\* a completed cycle has deleted a low-value record and left another one,
\* which a search had reset, in the table
C16_Witness ==
    /\ fpc = "end"
    /\ f_outcome = "completed"
    /\ \E i \in deleted :
        Conv(i).importance_initial <= forgetting_importance_threshold
    /\ \E j \in Live(conversations, deleted) \cap accessed :
        Conv(j).importance_initial <= forgetting_importance_threshold

\* C17 as stated: every high-value, non-fuzzy record the high-value phase
\* found at importance_current = 0 exists after the cycle with
\* is_fuzzy = true and importance_current = importance_initial
C17_SelectedIsFuzzified ==
    (fpc = "end" /\ f_outcome = "completed") =>
        \A i \in f_sel :
            /\ i \notin deleted
            /\ Conv(i).is_fuzzy
            /\ Conv(i).importance_current = Conv(i).importance_initial

\* C17 amended: such a record is not deleted by that cycle; after the cycle
\* it is fuzzy with importance_current = importance_initial when its
\* fuzzification UPDATE ran, and still not fuzzy when that UPDATE failed
C17_SelectedSurvives ==
    /\ \A i \in f_sel : i \notin deleted
    /\ (fpc = "end" /\ f_outcome = "completed") =>
          \A i \in f_sel :
              IF i \in f_done
                THEN /\ Conv(i).is_fuzzy
                     /\ Conv(i).importance_current = Conv(i).importance_initial
                ELSE ~Conv(i).is_fuzzy

\* a completed cycle has fuzzified one selected record and failed on another
C17_Witness ==
    /\ fpc = "end"
    /\ f_outcome = "completed"
    /\ \E i \in f_done : Conv(i).is_fuzzy
    /\ \E j \in f_sel \ f_done : Conv(j).importance_current = 0

\* C18: a memory is deleted only when, at the moment of the deletion, its
\* importance_current is 0 and it is low-value or already fuzzy, whatever
\* searches run between the steps of the forgetting cycle
C18_DeletedOnlyAtZero ==
    [][ \A i \in deleted' \ deleted :
            /\ Conv(i).importance_current = 0
            /\ \/ Conv(i).importance_initial <= forgetting_importance_threshold
               \/ Conv(i).is_fuzzy ]_vars

\* the cycle's DELETEs have removed a fuzzy record and spared a low-value
\* one that a search had reset after the decay
C18_Witness ==
    /\ fpc = "select"
    /\ \E j \in deleted : Conv(j).is_fuzzy
    /\ \E k \in Live(conversations, deleted) \cap accessed :
        /\ Conv(k).importance_initial <= forgetting_importance_threshold
        /\ Conv(k).importance_current = Conv(k).importance_initial

\* the step is the cycle's decay and lowers row i by one, floored at 0
DecayChange(i) ==
    /\ fpc = "decay" /\ fpc' = "delete_low"
    /\ Conv(i)'.importance_current = Max(0, Conv(i).importance_current - 1)

\* the step is the UPDATE of a search that returns row i
AccessChange(i) ==
    /\ cpc = "reset" /\ cpc' = "idle"
    /\ i \in c_rows
    /\ Conv(i)'.importance_current = Conv(i).importance_initial

\* the step is the fuzzification UPDATE of row i
FuzzifyChange(i) ==
    /\ fpc = "update" /\ fpc' = "fuzzify"
    /\ i = f_cur
    /\ Conv(i)'.is_fuzzy
    /\ Conv(i)'.importance_current = Conv(i).importance_initial

\* C19 as stated: importance_current of a memory changes only through a
\* decay step or through the reset of a search that returned the record
C19_OnlyDecayOrAccess ==
    [][ \A i \in Live(conversations, deleted) :
            Conv(i)'.importance_current # Conv(i).importance_current =>
                DecayChange(i) \/ AccessChange(i) ]_vars

\* C19 amended: importance_current of a memory changes only through a decay
\* step, through the reset of a search that returned the record, or through
\* the record's fuzzification, which sets it to importance_initial
C19_OnlyDecayAccessOrFuzzify ==
    [][ \A i \in Live(conversations, deleted) :
            Conv(i)'.importance_current # Conv(i).importance_current =>
                DecayChange(i) \/ AccessChange(i) \/ FuzzifyChange(i) ]_vars

\* a record no search has ever returned is back at importance_initial: its
\* fuzzification has reset it
C19_Witness ==
    /\ fpc = "fuzzify"
    /\ \E i \in f_done \ accessed :
        /\ Conv(i).is_fuzzy
        /\ Conv(i).importance_current = Conv(i).importance_initial
    /\ \E j \in accessed \ deleted :
        Conv(j).importance_current < Conv(j).importance_initial

C30_AtMostLimit ==
    spc = "done" => Len(results) <= s_limit

\* two records match the query's keywords and the limit of 1 cuts the result
C30_Witness ==
    /\ spc = "done"
    /\ s_limit = 1
    /\ Cardinality(s_matched \cap DOMAIN knowledge) = 2
    /\ Len(results) = 1

(***************************************************************************)
(* Interleaved knowledge calls (SpecTasks)                                 *)
(***************************************************************************)
\* C29: with add_knowledge, update_knowledge and delete_knowledge tasks
\* interleaving at their awaits, the keyword index matches the persisted
\* records whenever no such call is in progress
C29_QuiescentIndexMatches ==
    (\A t \in Tasks : ktasks[t].pc = "idle") =>
        \A k \in AllKeys : \A i \in 1..MaxId :
            (i \in Bucket(keyword_index, k))
                <=> (i \in DOMAIN knowledge /\ k \in RecordKeys(i))

(***************************************************************************)
(* C22: every inbound message passed to process_message is appended to the *)
(* buffer of its conversation, whatever the pre-filter, the score or the   *)
(* reply decision: each message handed in so far has been pushed.          *)
(***************************************************************************)
C22_EveryMessageBuffered ==
    \A n \in 1..(nextMsg - 1) : [id |-> n] \in SeqToSet(pushed)

(***************************************************************************)
(* C23: on the @ path, when generate_reply still fails after its retries,  *)
(* process_message returns the canned fallback text and no exception       *)
(* leaves it: a call that ends in the generation step ends with the        *)
(* fallback.                                                               *)
(***************************************************************************)
C23_FailureGivesFallback ==
    [][(ppc = "at_generate" /\ ppc' = "idle") => p_result' = "fallback"]_vars

(***************************************************************************)
(* C24: registering the consolidation job and the forgetting job is        *)
(* idempotent.  After any number of register and unregister calls the      *)
(* scheduler holds at most one job of each id; right after a register call *)
(* it holds exactly one job of that id, the one this call registered; and  *)
(* an unregister call that finds no job of its id ends quietly and leaves  *)
(* the jobs as they were.                                                  *)
(***************************************************************************)
C24_RegistrationIdempotent ==
    /\ [](\A id \in {SummaryJobId, ForgettingJobId} : Len(JobsWithId(jobs, id)) <= 1)
    /\ [](sched_result = "registered" =>
            /\ jobs # <<>>
            /\ Len(JobsWithId(jobs, jobs[Len(jobs)].id)) = 1
            /\ jobs[Len(jobs)].id = SummaryJobId => jobs[Len(jobs)].args = registrations
            /\ jobs[Len(jobs)].id = ForgettingJobId => service = registrations)
    /\ [][(jobs = <<>> /\ registrations' = registrations)
            => (jobs' = <<>> /\ sched_result' = "ignored")]_vars

\* both jobs are registered, the consolidation job for the second time at least
C24_Witness ==
    /\ sched_result = "registered"
    /\ registrations >= 3
    /\ Len(jobs) = 2
    /\ jobs[2].id = SummaryJobId
    /\ jobs[2].args >= 2
    /\ jobs[1].id = ForgettingJobId

\* the rows of table komari_memory_entity that have the triple t
RowsOf(table, t) == SelectSeq(table, LAMBDA row : TripleOf(row) = t)

C26_AtMostThreeAttempts == summarize_calls <= 3

\* the steps of perform_summary after the loop over the entities
AfterEntities == {"reset_count", "reset_tokens", "delete_buffer", "update_last"}

(***************************************************************************)
(* C28: in a consolidation an entity upsert that fails prevents neither    *)
(* the upserts of the remaining entities nor the reset of the counters:    *)
(* after any upsert, failed or not, the loop goes on with the entities     *)
(* left, and with none left the run goes on to its resets, every entity of *)
(* the reply having been reached and the ones whose upsert returned being  *)
(* in the table.  In a forgetting cycle a fuzzification that fails does    *)
(* not prevent the fuzzification of the remaining records: the loop goes   *)
(* on with the records left, and a cycle that completes has left none.     *)
(***************************************************************************)
C28_FailuresDoNotStopTheBatch ==
    /\ [][(tpc = "upsert" /\ e_log' # e_log) =>
            /\ pending' = Tail(pending)
            /\ tpc' = IF Tail(pending) = <<>> THEN "reset_count" ELSE "upsert"]_vars
    /\ [](tpc \in AfterEntities =>
            /\ Len(e_log) = Len(t_entities)
            /\ \A i \in 1..Len(e_log) :
                e_log[i] = "ok" =>
                    RowsOf(entities, TripleOf(t_entities[i].entity)) # <<>>)
    /\ [][(fpc = "update" /\ fpc' = "fuzzify") =>
            /\ f_rows' = f_rows \ {f_cur}
            /\ f_done' \in {f_done, f_done \cup {f_cur}}]_vars
    /\ []((fpc = "end" /\ f_outcome = "completed") => f_rows = {})

\* the first entity's upsert failed, the second one's returned and the
\* message count is reset; the first record's fuzzification failed and the
\* second record is being fuzzified
C28_Witness ==
    /\ tpc = "reset_tokens"
    /\ e_log = <<"failed", "ok">>
    /\ message_count = 0
    /\ Len(entities) = 1
    /\ fpc = "update"
    /\ f_sel = {1, 2}
    /\ f_done = {}
    /\ f_rows = {f_cur}

(***************************************************************************)
(* C25: in a consolidation the memory record is stored before any counter  *)
(* is reset, and the resets come in the order message counter, token       *)
(* counter, buffer, last-summary time.  Of a tick that ran alone: when the *)
(* memory is stored the first run of perform_summary has reset nothing;    *)
(* when the message counter is reset a memory has been stored and the      *)
(* later keys are as they were; and so on for each reset, the earlier      *)
(* ones done, the later ones not yet.                                      *)
(***************************************************************************)
C25_StoreThenResetsInOrder ==
    [][~disturbed' =>
        /\ (tpc = "store" /\ tpc' \in {"upsert", "reset_count"}) =>
            /\ Len(conversations') = Len(conversations) + 1
            /\ attempt = 0 =>
                /\ message_count = snap.message_count
                /\ token_count = snap.token_count
                /\ buffer = snap.buffer
                /\ last_summary = snap.last_summary
        /\ (tpc = "reset_count" /\ tpc' = "reset_tokens") =>
            /\ Len(conversations) > snap.nconv
            /\ message_count' = 0
            /\ attempt = 0 =>
                /\ token_count = snap.token_count
                /\ buffer = snap.buffer
                /\ last_summary = snap.last_summary
        /\ (tpc = "reset_tokens" /\ tpc' = "delete_buffer") =>
            /\ message_count = 0
            /\ token_count' = 0
            /\ attempt = 0 =>
                /\ buffer = snap.buffer
                /\ last_summary = snap.last_summary
        /\ (tpc = "delete_buffer" /\ tpc' = "update_last") =>
            /\ message_count = 0
            /\ token_count = 0
            /\ buffer' = <<>>
            /\ attempt = 0 => last_summary = snap.last_summary
        /\ (tpc = "update_last" /\ tpc' = "end" /\ outcome' = "ok") =>
            /\ message_count = 0
            /\ token_count = 0
            /\ buffer = <<>>
            /\ last_summary' = now]_vars

\* a tick that ran alone and without a failure has stored a memory and
\* reset all four keys
C25_Witness ==
    /\ tpc = "end"
    /\ outcome = "ok"
    /\ ~disturbed
    /\ attempt = 0
    /\ snap.message_count > 0
    /\ snap.token_count > 0
    /\ snap.buffer # <<>>
    /\ snap.last_summary = NoTime
    /\ Len(conversations) = snap.nconv + 1
    /\ message_count = 0
    /\ token_count = 0
    /\ buffer = <<>>
    /\ last_summary = now

\* row i is a high-value memory
HighValue(i) == Conv(i).importance_initial > forgetting_importance_threshold

\* this step fuzzifies row i
Fuzzified(i) == conversations'[i].is_fuzzy /\ ~Conv(i).is_fuzzy

\* this step deletes row i
Deleted(i) == i \in deleted' /\ i \notin deleted

\* this step ends a forgetting cycle that ran
CycleEnds == fpc # "end" /\ fpc' = "end" /\ f_outcome' # "disabled"

C31_AtMostNInvocations ==
    /\ Len(r_outcomes) <= r_max
    /\ \A i \in 1 .. Len(r_outcomes) :
          r_outcomes[i] = "ok" =>
              /\ i = Len(r_outcomes)
              /\ r_result = Returned
    /\ r_result.kind = "return" =>
          /\ r_outcomes # <<>>
          /\ r_outcomes[Len(r_outcomes)] = "ok"
    /\ (r_result.kind = "raise" /\ r_result.value \in Errors) =>
          Len(r_outcomes) = r_max
    /\ (Len(r_outcomes) = r_max /\ \A i \in 1 .. r_max : r_outcomes[i] \in Errors) =>
          r_result = Raise(r_outcomes[r_max])

\* three attempts have failed and the caller has the third failure
C31_Witness ==
    /\ r_max = 3
    /\ r_outcomes = <<RequestFailed, RequestFailed, TokenMissing>>
    /\ r_result = Raise(TokenMissing)
    /\ rpc = "done"

(***************************************************************************)
(* C32.  A configuration failure (here the missing API token, which        *)
(* generate_text raises before any request) is raised to the caller on     *)
(* its first occurrence and is not retried: the invocation that raised it  *)
(* is the last of the call and the wrapper's caller gets it.               *)
(***************************************************************************)
C32_ConfigurationFailureNotRetried ==
    \A i \in 1 .. Len(r_outcomes) :
        r_outcomes[i] = TokenMissing =>
            /\ i = Len(r_outcomes)
            /\ r_result = Raise(TokenMissing)

(***************************************************************************)
(* C33.  For every message that @-mentions the bot, process_message        *)
(* returns a reply, without asking for a score, whatever the cooldown and  *)
(* the hour's count are, and no other check comes first: a call that was   *)
(* given such an event ends with a reply and no score.                     *)
(***************************************************************************)
C33_MentionAlwaysReplied ==
    [][(/\ p_event'.to_me
        /\ ppc' = "idle"
        /\ ppc # "idle" \/ p_event'.id = nextMsg)
            => (p_result' = "reply" /\ p_event'.score = "unscored")]_vars

(***************************************************************************)
(* C36.  Every message that passes the pre-filter and is scored at or      *)
(* above the low-value cut-off is stored in the conversation's buffer,     *)
(* whether or not a proactive reply is produced for it: the step that      *)
(* settles what path such a message takes leaves it in the buffer's        *)
(* history of pushes.                                                      *)
(***************************************************************************)
C36_ScoredMessagesBuffered ==
    [][(/\ p_event'.id = nextMsg
        /\ nextMsg' = nextMsg + 1
        /\ ~p_event'.should_skip
        /\ p_event'.score \in {"normal", "high"})
            => [id |-> nextMsg] \in SeqToSet(pushed')]_vars

(***************************************************************************)
(* C35.  Proactive replies respect the cooldown in every interleaving:     *)
(* once a proactive reply has been produced for a conversation, no other   *)
(* is produced for it until the cooldown expires, also when several        *)
(* messages of the conversation are handled concurrently.  Between two     *)
(* expiries of the cooldown key at most one proactive reply is stored.     *)
(***************************************************************************)
C35_OneReplyPerCooldown == window <= 1

(***************************************************************************)
(* C34.  build_prompt keeps the buffered messages in the order it was      *)
(* given, merges every maximal run of consecutive messages of one role     *)
(* into one block, so that two adjacent history blocks never have the same *)
(* role, and always ends the list with a user block holding the current    *)
(* input.  The history blocks are those between the background pair and    *)
(* the last block.                                                         *)
(***************************************************************************)
HistoryBlocks(contents) == SubSeq(contents, 3, Len(contents) - 1)

RECURSIVE JoinedParts(_)
JoinedParts(blocks) ==
    IF blocks = <<>> THEN <<>> ELSE Head(blocks).parts \o JoinedParts(Tail(blocks))

C34_HistoryMergedInOrder ==
    bpc = "done" =>
        LET h == HistoryBlocks(b_contents)
            last == b_contents[Len(b_contents)]
        IN  /\ Len(b_contents) >= 3
            /\ JoinedParts(h) =
                  [i \in 1 .. Len(b_recent) |->
                      [id |-> b_recent[i].id, prefixed |-> ~b_recent[i].is_bot]]
            /\ \A k \in 1 .. Len(h) :
                  /\ h[k].parts # <<>>
                  /\ \A j \in 1 .. Len(h[k].parts) :
                        h[k].parts[j].prefixed <=> (h[k].role = "user")
            /\ \A k \in 1 .. Len(h) - 1 : h[k].role # h[k + 1].role
            /\ last.role = "user"
            /\ last.parts[1] = [user_input |-> b_user_message]

\* two users' messages, a reply of the bot and one more message give three
\* history blocks
C34_Witness ==
    /\ bpc = "done"
    /\ Len(b_recent) = 4
    /\ ~b_recent[1].is_bot /\ ~b_recent[2].is_bot
    /\ b_recent[3].is_bot /\ ~b_recent[4].is_bot
    /\ Len(b_contents) = 6
    /\ Len(b_contents[3].parts) = 2

(***************************************************************************)
(* C37.  A memory is fuzzified only while its importance_current is 0: if  *)
(* a search has reset the record between the cycle's selection and the     *)
(* fuzzification's UPDATE, its summary is not replaced and is_fuzzy is not *)
(* set.  Every step that sets is_fuzzy finds the record at 0.              *)
(***************************************************************************)
C37_FuzzifiedOnlyAtZero ==
    [][ \A i \in Live(conversations, deleted) :
            (~Conv(i).is_fuzzy /\ Conv(i)'.is_fuzzy) =>
                Conv(i).importance_current = 0 ]_vars

(***************************************************************************)
(* C38.  For every conversation memory, in every reachable state, the      *)
(* stored embedding is the embedding of the record's current summary,      *)
(* also after fuzzification has replaced the summary.                      *)
(***************************************************************************)
C38_EmbeddingOfCurrentSummary ==
    \A i \in Live(conversations, deleted) :
        Conv(i).embedding = get_embedding(Conv(i).summary)

(***************************************************************************)
(* C39.  get_engine never exposes an engine that is not fully initialized: *)
(* it returns None until initialize_engine has completed successfully,     *)
(* also when the initialization fails and when several tasks call          *)
(* initialize_engine concurrently.                                         *)
(***************************************************************************)
C39_NoHalfInitializedEngine ==
    g_got = NoEngine \/ FullyInitialized(g_got)

(***************************************************************************)
(* C40.  Under fair scheduling of the consolidation tick, with a           *)
(* summarizer and a store that succeed, every conversation with a          *)
(* non-empty buffer is eventually consolidated, also when no further       *)
(* message arrives and the conversation has never been summarized before:  *)
(* the buffer of a conversation without a last summary is eventually       *)
(* consumed by a consolidation, which deletes it.                          *)
(***************************************************************************)
C40_EventuallyConsolidated ==
    (buffer # <<>> /\ last_summary = NoTime) ~> (buffer = <<>>)

====
